---------------------------- MODULE Spec2Model ----------------------------
(***************************************************************************)
(* Cyclic-voltammetry analysis pipeline (ekinxoxo-v2).                     *)
(*                                                                         *)
(* The pipeline is a set of pure numerical functions.  Each function is    *)
(* an operator computed as the source computes it; each specification      *)
(* draws the arguments of one entry point in Init and applies it in one    *)
(* action.  Real numbers are exact rationals <<numerator, denominator>>    *)
(* (denominator > 0, lowest terms); arrays are sequences, and the source's *)
(* 0-based indices are kept as values and mapped to positions by At.       *)
(***************************************************************************)
EXTENDS Integers, Sequences, FiniteSets, TLC

VARIABLES pc, args, result

vars == <<pc, args, result>>

(***************************************************************************)
(* Bounds of the model.                                                    *)
(***************************************************************************)
MaxLen == 5          \* longest sample sequence drawn
MaxIter == 2         \* largest rubberband iteration count drawn

(***************************************************************************)
(* Exact rational arithmetic, standing for the source's number type.       *)
(***************************************************************************)
Abs(x) == IF x < 0 THEN -x ELSE x
Max(a, b) == IF a >= b THEN a ELSE b
Min(a, b) == IF a <= b THEN a ELSE b

RECURSIVE GCD(_, _)
GCD(a, b) == IF b = 0 THEN a ELSE GCD(b, a % b)

Norm(n, d) ==
  LET g == GCD(Abs(n), Abs(d))
      s == IF d < 0 THEN -1 ELSE 1
  IN  IF n = 0 THEN <<0, 1>> ELSE <<s * (n \div g), s * (d \div g)>>

R(k) == <<k, 1>>
Zero == <<0, 1>>
One == <<1, 1>>

RNeg(a) == <<-a[1], a[2]>>
RAdd(a, b) ==
  LET g == GCD(a[2], b[2])
  IN  Norm(a[1] * (b[2] \div g) + b[1] * (a[2] \div g), (a[2] \div g) * b[2])
RSub(a, b) == RAdd(a, RNeg(b))
RMul(a, b) ==
  IF a[1] = 0 \/ b[1] = 0 THEN Zero
  ELSE LET g1 == GCD(Abs(a[1]), b[2])
           g2 == GCD(Abs(b[1]), a[2])
       IN  <<(a[1] \div g1) * (b[1] \div g2), (a[2] \div g2) * (b[2] \div g1)>>
RInv(a) == IF a[1] < 0 THEN <<-a[2], -a[1]>> ELSE <<a[2], a[1]>>
RDiv(a, b) == RMul(a, RInv(b))
RSign(a) == IF a[1] > 0 THEN 1 ELSE IF a[1] < 0 THEN -1 ELSE 0
\* a < b, comparing whole parts first and fractional parts after
RLt(a, b) ==
  LET fa == a[1] \div a[2]
      fb == b[1] \div b[2]
      g == GCD(a[2], b[2])
  IN  IF fa # fb THEN fa < fb
      ELSE (a[1] % a[2]) * (b[2] \div g) < (b[1] % b[2]) * (a[2] \div g)
RLe(a, b) == a = b \/ RLt(a, b)
RGt(a, b) == RLt(b, a)
RGe(a, b) == RLe(b, a)
RAbs(a) == <<Abs(a[1]), a[2]>>
RMin(a, b) == IF RLt(b, a) THEN b ELSE a
RMax(a, b) == IF RGt(b, a) THEN b ELSE a
\* Math.floor of a rational
RFloor(a) == a[1] \div a[2]

\* arr[i] for a 0-based index i
At(arr, i) == arr[i + 1]
\* an array of n elements given by f, built once (new Array(n) / map)
Arr(n, f) == SubSeq(f, 1, n)

(***************************************************************************)
(* Samples (DataPoint).  An absent optional time is hasTime = FALSE.       *)
(***************************************************************************)
Point(e, c) == [potential |-> e, current |-> c, hasTime |-> FALSE, time |-> Zero]
TimedPoint(e, c, t) == [potential |-> e, current |-> c, hasTime |-> TRUE, time |-> t]
\* data.map(p => ({ potential: p.potential, current: p.current }))
CopyPoints(data) ==
  Arr(Len(data), [i \in 1..Len(data) |-> Point(data[i].potential, data[i].current)])
Currents(data) == Arr(Len(data), [i \in 1..Len(data) |-> data[i].current])

(***************************************************************************)
(* Rubberband baseline.                                                    *)
(***************************************************************************)
\* running extremum over envelope[j..hi] (0-based), as the inner loops do
RECURSIVE WindowExtremum(_, _, _, _, _)
WindowExtremum(arr, j, hi, extremum, takeMin) ==
  IF j > hi THEN extremum
  ELSE LET v == At(arr, j)
           e == IF takeMin
                THEN (IF RLt(v, extremum) THEN v ELSE extremum)
                ELSE (IF RGt(v, extremum) THEN v ELSE extremum)
       IN  WindowExtremum(arr, j + 1, hi, e, takeMin)

MovingExtremum(arr, halfWin, takeMin) ==
  LET n == Len(arr)
  IN  Arr(n, [k \in 1..n |->
        LET i == k - 1
            lo == Max(0, i - halfWin)
            hi == Min(n - 1, i + halfWin)
        IN  WindowExtremum(arr, lo + 1, hi, At(arr, lo), takeMin)])

\* the sum of arr[lo..hi] (0-based), taken by halves
RECURSIVE SumRange(_, _, _)
SumRange(arr, lo, hi) ==
  IF lo > hi THEN Zero
  ELSE IF lo = hi THEN RAdd(At(arr, lo), Zero)
  ELSE LET mid == (lo + hi) \div 2
       IN  RAdd(SumRange(arr, lo, mid), SumRange(arr, mid + 1, hi))

smoothArray(arr, halfWin) ==
  LET n == Len(arr)
  IN  Arr(n, [k \in 1..n |->
        LET i == k - 1
            lo == Max(0, i - halfWin)
            hi == Min(n - 1, i + halfWin)
        IN  RDiv(SumRange(arr, lo, hi), R(hi - lo + 1))])

RubberbandHalfWin(n, windowSize) ==
  Max(2, Min(n \div 20, windowSize \div 2))

\* one pass of the iteration loop: erosion, dilation, moving average
RubberbandPass(envelope, halfWin, forward) ==
  LET eroded == MovingExtremum(envelope, halfWin, forward)
      dilated == MovingExtremum(eroded, halfWin, ~forward)
  IN  smoothArray(dilated, halfWin)

RECURSIVE RubberbandIterate(_, _, _, _)
RubberbandIterate(envelope, halfWin, forward, iters) ==
  IF iters <= 0 \/ Len(envelope) = 0 THEN envelope
  ELSE RubberbandIterate(RubberbandPass(envelope, halfWin, forward),
                         halfWin, forward, iters - 1)

\* a variant returning the envelope unclamped
RubberbandClampNone(envelope, data, forward) == envelope
\* the final clamp: the envelope never crosses the data on the peak side
RubberbandClamp(envelope, data, forward) ==
  Arr(Len(data), [i \in 1..Len(data) |->
     IF forward THEN RMin(envelope[i], data[i].current)
     ELSE RMax(envelope[i], data[i].current)])

rubberbandBaseline(data, direction, iterations, windowSize) ==
  IF Len(data) < 3 THEN CopyPoints(data)
  ELSE LET n == Len(data)
           forward == (direction = "forward")
           halfWin == RubberbandHalfWin(n, windowSize)
           envelope == RubberbandIterate(Currents(data), halfWin, forward, iterations)
           clamped == RubberbandClamp(envelope, data, forward)
       IN  Arr(n, [i \in 1..n |-> Point(data[i].potential, clamped[i])])

(***************************************************************************)
(* Linear baseline.                                                        *)
(*                                                                         *)
(* The thresholds 1e-10, 1e-15 and 1e-30 are below the smallest non-zero   *)
(* magnitude a rational of the model can have (1/(2^31-1)), so |x| < t     *)
(* holds for them exactly when x = 0.                                      *)
(***************************************************************************)
BelowTiny(x) == x[1] = 0

\* one term of a sum of the regression loop
SumTerm(points, i, field) ==
  CASE field = "x" -> points[i].x
    [] field = "y" -> points[i].y
    [] field = "xy" -> RMul(points[i].x, points[i].y)
    [] field = "x2" -> RMul(points[i].x, points[i].x)

\* the sum of the terms from..to, taken by halves to keep the evaluation
\* shallow; the sums are exact, so the order of the additions is immaterial
RECURSIVE SumOverRange(_, _, _, _)
SumOverRange(points, from, to, field) ==
  IF from > to THEN Zero
  ELSE IF from = to THEN RAdd(SumTerm(points, from, field), Zero)
  ELSE LET mid == (from + to) \div 2
       IN  RAdd(SumOverRange(points, from, mid, field),
                SumOverRange(points, mid + 1, to, field))

\* the sums of the regression loop over the anchors from index i on
SumOver(points, i, field) == SumOverRange(points, i, Len(points), field)

LeastSquaresDenom(points) ==
  LET sumX == SumOver(points, 1, "x")
      sumX2 == SumOver(points, 1, "x2")
  IN  RSub(RMul(R(Len(points)), sumX2), RMul(sumX, sumX))

leastSquares(points) ==
  LET n == R(Len(points))
      sumX == SumOver(points, 1, "x")
      sumY == SumOver(points, 1, "y")
      sumXY == SumOver(points, 1, "xy")
      denom == LeastSquaresDenom(points)
  IN  IF BelowTiny(denom)
      THEN [slope |-> Zero, intercept |-> RDiv(sumY, n)]
      ELSE LET slope == RDiv(RSub(RMul(n, sumXY), RMul(sumX, sumY)), denom)
           IN  [slope |-> slope,
                intercept |-> RDiv(RSub(sumY, RMul(slope, sumX)), n)]

\* Math.max(2, Math.floor(n * anchorFraction))
AnchorCount(n, anchorFraction) == Max(2, RFloor(RMul(R(n), anchorFraction)))

\* the anchors of the first and the last anchorCount samples
Anchors(data, anchorCount) ==
  LET n == Len(data)
      xy(i) == [x |-> At(data, i).potential, y |-> At(data, i).current]
  IN  Arr(anchorCount, [k \in 1..anchorCount |-> xy(k - 1)])
      \o Arr(anchorCount, [k \in 1..anchorCount |-> xy(n - anchorCount + k - 1)])

\* a variant evaluating the line on the anchors only
EvalLineOnAnchors(data, anchorCount, fit) ==
  LET pts == Anchors(data, anchorCount)
  IN  Arr(Len(pts), [i \in 1..Len(pts) |->
        Point(pts[i].x, RAdd(RMul(fit.slope, pts[i].x), fit.intercept))])
\* data.map(p => slope * p.potential + intercept)
EvalLine(data, anchorCount, fit) ==
  Arr(Len(data), [i \in 1..Len(data) |->
    Point(data[i].potential, RAdd(RMul(fit.slope, data[i].potential), fit.intercept))])

\* A returned value is [threw |-> FALSE, value |-> v, ...]; a raised
\* exception is [threw |-> TRUE, ...].  Reading data[i] for i >= n yields
\* undefined, whose .potential raises a TypeError: this happens exactly
\* when anchorCount exceeds the length.
linearBaseline(data, anchorFraction) ==
  IF Len(data) < 3
  THEN [threw |-> FALSE, value |-> CopyPoints(data)]
  ELSE LET n == Len(data)
           anchorCount == AnchorCount(n, anchorFraction)
       IN  IF anchorCount > n
           THEN [threw |-> TRUE, value |-> <<>>]
           ELSE [threw |-> FALSE,
                 value |-> EvalLine(data, anchorCount,
                                    leastSquares(Anchors(data, anchorCount)))]

(***************************************************************************)
(* ASLS baseline.                                                          *)
(*                                                                         *)
(* The Cholesky factor holds square roots.  It is carried exactly as       *)
(* a2[j] = a[j]^2, eN[j] = e[j]*a[j] and fN[j] = f[j]*a[j], so that every  *)
(* product the substitutions form (e*e, e*f, e*g, val/a) is rational:      *)
(* e[j]^2 = eN[j]^2/a2[j], e[j]*f[j] = eN[j]*fN[j]/a2[j], and with         *)
(* gN[i] = g[i]*a[i], e[i]*g[i] = eN[i]*gN[i]/a2[i].                       *)
(***************************************************************************)
ASLS_MIN_LEN == 5
ASLS_MAX_ITERATIONS == 20
Tolerance == <<1, 1000000>>
\* the pivot floor 1e-30, at the resolution of the model's rationals
PivotFloor == <<1, 1000000000>>

DtD(i, n) == IF i = 0 \/ i = n - 1 THEN 1 ELSE IF i = 1 \/ i = n - 2 THEN 5 ELSE 6

\* the three bands of A = W + lambda D2'D2 before factorisation
BandA(w, lambda, n) ==
  Arr(n, [k \in 1..n |-> RAdd(w[k], RMul(lambda, R(DtD(k - 1, n))))])
\* the first sub-diagonal with -4 lambda at its two ends as well
BandEUniform(lambda, n) == Arr(n - 1, [k \in 1..(n - 1) |-> RMul(lambda, R(-4))])

BandE(lambda, n) ==
  Arr(n - 1, [k \in 1..(n - 1) |->
    IF k - 1 = 0 \/ k - 1 = n - 2 THEN RMul(lambda, R(-2)) ELSE RMul(lambda, R(-4))])
BandF(lambda, n) == Arr(n - 2, [k \in 1..(n - 2) |-> lambda])

ClampPivot(x) == IF RGt(x, Zero) THEN x ELSE PivotFloor

\* column j of the factorisation, given the columns before it
RECURSIVE Factorise(_, _, _, _, _, _, _)
Factorise(j, n, a0, e0, f0, a2, eN) ==
  IF j >= n \/ Len(a2) >= n THEN [a2 |-> a2, eN |-> eN, fN |-> f0]
  ELSE LET s1 == IF j >= 1
                 THEN RSub(At(a0, j), RDiv(RMul(At(eN, j - 1), At(eN, j - 1)), At(a2, j - 1)))
                 ELSE At(a0, j)
           s2 == IF j >= 2
                 THEN RSub(s1, RDiv(RMul(At(f0, j - 2), At(f0, j - 2)), At(a2, j - 2)))
                 ELSE s1
           piv == ClampPivot(s2)
           ej == IF j >= 1
                 THEN RSub(At(e0, j), RDiv(RMul(At(eN, j - 1), At(f0, j - 1)), At(a2, j - 1)))
                 ELSE At(e0, j)
       IN  Factorise(j + 1, n, a0, e0, f0, Append(a2, piv),
                     IF j < n - 1 THEN Append(eN, ej) ELSE eN)

\* forward substitution L g = W y
RECURSIVE ForwardSubst(_, _, _, _, _, _)
ForwardSubst(i, n, L, w, y, gN) ==
  IF i >= n \/ Len(gN) >= n THEN gN
  ELSE LET v0 == RMul(At(w, i), At(y, i))
           v1 == IF i >= 1
                 THEN RSub(v0, RDiv(RMul(At(L.eN, i - 1), At(gN, i - 1)), At(L.a2, i - 1)))
                 ELSE v0
           v2 == IF i >= 2
                 THEN RSub(v1, RDiv(RMul(At(L.fN, i - 2), At(gN, i - 2)), At(L.a2, i - 2)))
                 ELSE v1
       IN  ForwardSubst(i + 1, n, L, w, y, Append(gN, v2))

\* back substitution L' z = g; zs holds z[i+1..n-1]
RECURSIVE BackSubst(_, _, _, _, _)
BackSubst(i, n, L, gN, zs) ==
  IF i < 0 \/ Len(zs) >= n THEN zs
  ELSE LET v0 == At(gN, i)
           v1 == IF i + 1 < n THEN RSub(v0, RMul(At(L.eN, i), zs[1])) ELSE v0
           v2 == IF i + 2 < n THEN RSub(v1, RMul(At(L.fN, i), zs[2])) ELSE v1
       IN  BackSubst(i - 1, n, L, gN, <<RDiv(v2, At(L.a2, i))>> \o zs)

\* the two substitutions, given the factor
Substitute(L, y, w, n) ==
  CHOOSE z \in {BackSubst(n - 1, n, L, gN, <<>>) :
                  gN \in {ForwardSubst(0, n, L, w, y, <<>>)}} : TRUE

\* each pass is a loop of the source, complete before the next one starts
solvePentadiagonal(y, w, lambda, n) ==
  CHOOSE z \in {Substitute(L, y, w, n) :
                  L \in {Factorise(0, n, BandA(w, lambda, n), BandE(lambda, n),
                                   BandF(lambda, n), <<>>, <<>>)}} : TRUE

\* the weights with the two sides exchanged
NewWeightsSwapped(y, z, pAbove, pBelow) ==
  Arr(Len(y), [i \in 1..Len(y) |-> IF RGt(y[i], z[i]) THEN pBelow ELSE pAbove])

\* the asymmetric weights after a solve
NewWeights(y, z, pAbove, pBelow) ==
  Arr(Len(y), [i \in 1..Len(y) |-> IF RGt(y[i], z[i]) THEN pAbove ELSE pBelow])

\* the largest |newW[k] - w[k]| for k >= i, the maximum taken by halves
MaxChange(newW, w, i) ==
  LET RECURSIVE MaxOver(_, _)
      MaxOver(from, to) ==
        IF from > to THEN Zero
        ELSE IF from = to THEN RMax(RAbs(RSub(newW[from], w[from])), Zero)
        ELSE LET mid == (from + to) \div 2
             IN  RMax(MaxOver(from, mid), MaxOver(mid + 1, to))
  IN  MaxOver(i, Len(w))

\* the iteration loop from iteration iter on; solves counts the solves done
RECURSIVE AslsLoop(_, _, _, _, _, _, _, _, _)
AslsLoop(iter, maxIterations, y, w, z, lambda, pAbove, pBelow, tol) ==
  IF iter >= maxIterations THEN [z |-> z, w |-> w, solves |-> iter]
  ELSE CHOOSE r \in
         {LET w1 == NewWeights(y, z1, pAbove, pBelow)
          IN  IF RLt(MaxChange(w1, w, 1), tol)
              THEN [z |-> z1, w |-> w1, solves |-> iter + 1]
              ELSE AslsLoop(iter + 1, maxIterations, y, w1, z1, lambda, pAbove, pBelow,
                            tol) :
            z1 \in {solvePentadiagonal(y, w, lambda, Len(y))}} : TRUE

aslsRun(data, direction, lambda, p, maxIterations, tol) ==
  LET y == Currents(data)
      pAbove == IF direction = "forward" THEN p ELSE RSub(One, p)
      pBelow == RSub(One, pAbove)
      w0 == Arr(Len(y), [i \in 1..Len(y) |-> One])
  IN  AslsLoop(0, maxIterations, y, w0, y, lambda, pAbove, pBelow, tol)

aslsBaseline(data, direction, lambda, p, maxIterations, tol) ==
  IF Len(data) < ASLS_MIN_LEN THEN CopyPoints(data)
  ELSE LET run == aslsRun(data, direction, lambda, p, maxIterations, tol)
       IN  Arr(Len(data), [i \in 1..Len(data) |-> Point(data[i].potential, run.z[i])])

(***************************************************************************)
(* Baseline dispatcher.                                                    *)
(***************************************************************************)
Returned(v) == [threw |-> FALSE, value |-> v]

\* a variant whose default branch is the linear method
computeBaselineDefaultLinear(data, direction, config) ==
  CASE config.baselineMethod = "asls" ->
         Returned(aslsBaseline(data, direction, config.aslsLambda, config.aslsP,
                               ASLS_MAX_ITERATIONS, Tolerance))
    [] config.baselineMethod = "rubberband" ->
         Returned(rubberbandBaseline(data, direction, config.rubberbandIterations,
                                     config.rubberbandWindowSize))
    [] OTHER -> linearBaseline(data, config.linearAnchorFraction)
\* the dispatcher: an unknown method takes the rubberband branch
computeBaseline(data, direction, config) ==
  CASE config.baselineMethod = "linear" ->
         linearBaseline(data, config.linearAnchorFraction)
    [] config.baselineMethod = "asls" ->
         Returned(aslsBaseline(data, direction, config.aslsLambda, config.aslsP,
                               ASLS_MAX_ITERATIONS, Tolerance))
    [] OTHER ->
         Returned(rubberbandBaseline(data, direction, config.rubberbandIterations,
                                     config.rubberbandWindowSize))

(***************************************************************************)
(* Convolution engine.                                                     *)
(*                                                                         *)
(* A non-finite number (NaN, Infinity) is a pair with denominator 0.       *)
(***************************************************************************)
IsFinite(v) == v[2] # 0

\* the number of non-finite values among vals[i..]
CountNonFinite(vals, i) ==
  Cardinality({k \in i..Len(vals) : ~IsFinite(vals[k])})

\* the index getDataValue reads: the index itself inside the array, otherwise
\* the one the edge mode resolves it to (-1: no read, the default branch)
DataIndex(n, index, edgeHandling) ==
  IF index >= 0 /\ index < n THEN index
  ELSE CASE edgeHandling = "mirror" ->
              IF index < 0 THEN Min(Abs(index), n - 1)
              ELSE Max(0, 2 * n - index - 2)
         [] edgeHandling \in {"constant", "extend"} ->
              IF index < 0 THEN 0 ELSE n - 1
         [] OTHER -> -1

\* values beyond the edges read as zero
getDataValueZeroPad(data, index, edgeHandling) ==
  IF index >= 0 /\ index < Len(data) THEN At(data, index) ELSE Zero

getDataValue(data, index, edgeHandling) ==
  LET k == DataIndex(Len(data), index, edgeHandling)
  IN  IF k = -1 THEN Zero ELSE At(data, k)

\* the inner loop over kernel positions from..to-1 for output i; the sum is
\* exact, so it is taken by halves to keep the evaluation shallow
RECURSIVE ConvolveRange(_, _, _, _, _, _)
ConvolveRange(data, kernel, i, from, to, edgeHandling) ==
  IF from >= to THEN Zero
  ELSE IF to - from = 1
  THEN LET dataValue == getDataValue(data, i - (Len(kernel) \div 2) + from, edgeHandling)
       IN  IF IsFinite(dataValue) THEN RAdd(RMul(dataValue, At(kernel, from)), Zero)
           ELSE Zero
  ELSE LET mid == (from + to) \div 2
       IN  RAdd(ConvolveRange(data, kernel, i, from, mid, edgeHandling),
                ConvolveRange(data, kernel, i, mid, to, edgeHandling))

\* the sum over kernel positions j..kernelSize-1 for output i
ConvolveAt(data, kernel, i, j, edgeHandling) ==
  ConvolveRange(data, kernel, i, j, Len(kernel), edgeHandling)

\* a kernel longer than the data rejected instead of warned about
convolveRejectsLongKernel(data, kernel, edgeHandling) ==
  [threw |-> Len(data) = 0 \/ Len(kernel) = 0 \/ Len(kernel) > Len(data)
               \/ CountNonFinite(kernel, 1) > 0,
   message |-> "", result |-> <<>>, warnings |-> <<>>]

convolve(data, kernel, edgeHandling) ==
  IF Len(data) = 0
  THEN [threw |-> TRUE, message |-> "Data must be a non-empty array",
        result |-> <<>>, warnings |-> <<>>]
  ELSE IF Len(kernel) = 0
  THEN [threw |-> TRUE, message |-> "Kernel must be a non-empty array",
        result |-> <<>>, warnings |-> <<>>]
  ELSE IF CountNonFinite(kernel, 1) > 0
  THEN [threw |-> TRUE, message |-> "Kernel contains NaN or infinite values",
        result |-> <<>>, warnings |-> <<>>]
  ELSE [threw |-> FALSE, message |-> "",
        result |-> Arr(Len(data), [k \in 1..Len(data) |->
                     ConvolveAt(data, kernel, k - 1, 0, edgeHandling)]),
        warnings |->
          (IF Len(kernel) > Len(data)
           THEN <<"Kernel is larger than data array, results may be unreliable">>
           ELSE <<>>)
          \o (IF CountNonFinite(data, 1) > 0
              THEN <<"Data contains NaN or infinite values">> ELSE <<>>)]

(***************************************************************************)
(* Savitzky-Golay kernel table.                                            *)
(***************************************************************************)
SG_WINDOWS == {5, 9, 11, 15, 21}

SmoothingCoefficients(windowSize) ==
  CASE windowSize = 5 -> <<-3, 12, 17, 12, -3>>
    [] windowSize = 9 -> <<-21, 14, 39, 54, 59, 54, 39, 14, -21>>
    [] windowSize = 11 -> <<-36, 9, 44, 69, 84, 89, 84, 69, 44, 9, -36>>
    [] windowSize = 15 ->
         <<-78, -13, 42, 87, 122, 147, 162, 167, 162, 147, 122, 87, 42, -13, -78>>
    [] windowSize = 21 ->
         <<-171, -76, 9, 84, 149, 204, 249, 284, 309, 324, 329, 324, 309, 284,
           249, 204, 149, 84, 9, -76, -171>>

DerivativeCoefficients(windowSize) ==
  CASE windowSize = 5 -> <<-2, -1, 0, 1, 2>>
    [] windowSize = 9 -> <<-4, -3, -2, -1, 0, 1, 2, 3, 4>>
    [] windowSize = 11 -> <<-5, -4, -3, -2, -1, 0, 1, 2, 3, 4, 5>>
    [] windowSize = 15 -> <<-7, -6, -5, -4, -3, -2, -1, 0, 1, 2, 3, 4, 5, 6, 7>>
    [] windowSize = 21 ->
         <<-10, -9, -8, -7, -6, -5, -4, -3, -2, -1, 0, 1, 2, 3, 4, 5, 6, 7, 8, 9, 10>>

\* the sum of xs[i..], taken by halves
IntSum(xs, i) ==
  LET RECURSIVE SumOf(_, _)
      SumOf(from, to) ==
        IF from > to THEN 0
        ELSE IF from = to THEN xs[from]
        ELSE SumOf(from, (from + to) \div 2) + SumOf((from + to) \div 2 + 1, to)
  IN  SumOf(i, Len(xs))

\* the integer coefficients returned as they are
getSmoothingKernelUnnormalized(windowSize) ==
  IF windowSize \notin SG_WINDOWS
  THEN [threw |-> TRUE, message |-> "No smoothing kernel available", kernel |-> <<>>]
  ELSE [threw |-> FALSE, message |-> "",
        kernel |-> Arr(windowSize, [i \in 1..windowSize |->
                     R(SmoothingCoefficients(windowSize)[i])])]

getNormalizedSmoothingKernel(windowSize) ==
  IF windowSize \notin SG_WINDOWS
  THEN [threw |-> TRUE, message |-> "No smoothing kernel available", kernel |-> <<>>]
  ELSE LET coefficients == SmoothingCoefficients(windowSize)
           sum == IntSum(coefficients, 1)
       IN  [threw |-> FALSE, message |-> "",
            kernel |-> Arr(Len(coefficients), [i \in 1..Len(coefficients) |->
                         Norm(coefficients[i], sum)])]

getDerivativeKernel(windowSize) ==
  IF windowSize \notin SG_WINDOWS
  THEN [threw |-> TRUE, message |-> "No derivative kernel available", kernel |-> <<>>]
  ELSE LET coefficients == DerivativeCoefficients(windowSize)
       IN  [threw |-> FALSE, message |-> "",
            kernel |-> Arr(Len(coefficients), [i \in 1..Len(coefficients) |->
                         R(coefficients[i])])]

(***************************************************************************)
(* Statistics shared by the smoothing and derivative stages.               *)
(***************************************************************************)
FiniteOnly(vals) == SelectSeq(vals, IsFinite)

\* the exact sum of vals[from..to], taken by halves to keep the evaluation
\* shallow
RECURSIVE RSumRange(_, _, _)
RSumRange(vals, from, to) ==
  IF from > to THEN Zero
  ELSE IF from = to THEN RAdd(vals[from], Zero)
  ELSE LET mid == (from + to) \div 2
       IN  RAdd(RSumRange(vals, from, mid), RSumRange(vals, mid + 1, to))

RSum(vals, i) == RSumRange(vals, i, Len(vals))

\* Math.max and Math.min over vals[i..], taken by halves
RMaxOf(vals, i) ==
  LET RECURSIVE MaxOver(_, _)
      MaxOver(from, to) ==
        IF from >= to THEN vals[from]
        ELSE RMax(MaxOver(from, (from + to) \div 2), MaxOver((from + to) \div 2 + 1, to))
  IN  MaxOver(i, Len(vals))
RMinOf(vals, i) ==
  LET RECURSIVE MinOver(_, _)
      MinOver(from, to) ==
        IF from >= to THEN vals[from]
        ELSE RMin(MinOver(from, (from + to) \div 2), MinOver((from + to) \div 2 + 1, to))
  IN  MinOver(i, Len(vals))

\* the variance, i.e. the square of calculateStandardDeviation
Variance(values) ==
  LET valid == FiniteOnly(values)
  IN  IF Len(valid) = 0 THEN Zero
      ELSE LET mean == RDiv(RSum(valid, 1), R(Len(valid)))
               sq == Arr(Len(valid), [i \in 1..Len(valid) |->
                       RMul(RSub(valid[i], mean), RSub(valid[i], mean))])
           IN  RDiv(RSum(sq, 1), R(Len(valid)))

(***************************************************************************)
(* Smoothing stage.                                                        *)
(***************************************************************************)
\* number of interior points whose smoothed step exceeds 3x the original step
RECURSIVE detectSmoothingArtifacts(_, _, _)
detectSmoothingArtifacts(original, smoothed, i) ==
  IF i >= Len(smoothed) - 2 THEN 0
  ELSE LET originalChange == RAbs(RSub(At(original, i), At(original, i - 1)))
           smoothedChange == RAbs(RSub(At(smoothed, i), At(smoothed, i - 1)))
       IN  (IF RGt(smoothedChange, RMul(originalChange, R(3))) THEN 1 ELSE 0)
           + detectSmoothingArtifacts(original, smoothed, i + 1)

calculateAmplitudeRatio(original, smoothed) ==
  LET originalAmplitude == RSub(RMaxOf(original, 1), RMinOf(original, 1))
      smoothedAmplitude == RSub(RMaxOf(smoothed, 1), RMinOf(smoothed, 1))
  IN  IF originalAmplitude = Zero THEN One
      ELSE RDiv(smoothedAmplitude, originalAmplitude)

\* noiseReduction = (sdO - sdS) / sdO, compared through the variances:
\* for sdO > 0, noiseReduction > 0.9 iff 100 varS < varO and
\* noiseReduction < 0.1 iff 100 varS > 81 varO; for sdO = 0 it is NaN
\* (sdS = 0, no comparison holds) or -Infinity (sdS > 0).
validateSmoothingQuality(original, smoothed) ==
  IF Len(original) # Len(smoothed)
  THEN <<"Original and smoothed arrays have different lengths">>
  ELSE LET varO == Variance(original)
           varS == Variance(smoothed)
           over == RGt(varO, Zero) /\ RLt(RMul(R(100), varS), varO)
           under == IF RGt(varO, Zero)
                    THEN RGt(RMul(R(100), varS), RMul(R(81), varO))
                    ELSE RGt(varS, Zero)
           ratio == calculateAmplitudeRatio(original, smoothed)
       IN  (IF over
            THEN <<"Heavy smoothing detected - peaks may be significantly flattened">>
            ELSE <<>>)
           \o (IF under
               THEN <<"Minimal smoothing detected - noise may still be present">>
               ELSE <<>>)
           \o (IF detectSmoothingArtifacts(original, smoothed, 2) > 0
               THEN <<"Detected potential smoothing artifacts">> ELSE <<>>)
           \o (IF RLt(ratio, <<4, 5>>) \/ RGt(ratio, <<6, 5>>)
               THEN <<"Smoothing may have distorted peak amplitudes">> ELSE <<>>)

\* the smoothed samples keep the potential and carry no other field
SmoothedPoints(data, smoothedCurrent) ==
  Arr(Len(data), [i \in 1..Len(data) |-> Point(data[i].potential, smoothedCurrent[i])])

\* the catch branch rethrowing instead of returning the input
SmoothingFallbackRaises(data, warnings, message) ==
  [threw |-> TRUE, smoothedData |-> <<>>, smoothedCurrent |-> <<>>,
   warnings |-> warnings]

\* the catch branch: the input itself is returned
SmoothingFallback(data, warnings, message) ==
  [threw |-> FALSE, smoothedData |-> data, smoothedCurrent |-> Currents(data),
   warnings |-> Append(warnings, "Smoothing failed: " \o message)]

applySmoothing(data, config) ==
  IF Len(data) = 0
  THEN [threw |-> TRUE, smoothedData |-> <<>>, smoothedCurrent |-> <<>>, warnings |-> <<>>]
  ELSE
    LET currentValues == Currents(data)
        warnings ==
          (IF Len(data) < config.smoothingWindow
           THEN <<"Data length is smaller than smoothing window. Results may be unreliable.">>
           ELSE <<>>)
          \o (IF CountNonFinite(currentValues, 1) > 0
              THEN <<"Found invalid current values, they will be ignored in smoothing">>
              ELSE <<>>)
        lookup == getNormalizedSmoothingKernel(config.smoothingWindow)
    IN  IF lookup.threw THEN SmoothingFallback(data, warnings, lookup.message)
        ELSE LET convolutionResult == convolve(currentValues, lookup.kernel, "mirror")
             IN  IF convolutionResult.threw
                 THEN SmoothingFallback(data, warnings, convolutionResult.message)
                 ELSE [threw |-> FALSE,
                       smoothedData |-> SmoothedPoints(data, convolutionResult.result),
                       smoothedCurrent |-> convolutionResult.result,
                       warnings |-> warnings \o convolutionResult.warnings
                         \o validateSmoothingQuality(currentValues, convolutionResult.result)]

(***************************************************************************)
(* Derivative stage.                                                       *)
(***************************************************************************)
\* insertion of v into an ascending sequence, after its equals
RECURSIVE InsertAsc(_, _)
InsertAsc(sorted, v) ==
  IF Len(sorted) = 0 THEN <<v>>
  ELSE IF RLt(v, sorted[1]) THEN <<v>> \o sorted
  ELSE <<sorted[1]>> \o InsertAsc(Tail(sorted), v)

RECURSIVE SortAsc(_)
SortAsc(vals) ==
  IF Len(vals) = 0 THEN <<>>
  ELSE InsertAsc(SortAsc(SubSeq(vals, 1, Len(vals) - 1)), vals[Len(vals)])

\* |E[i] - E[i-1]| for i = 1..n-1
AbsSpacings(data) ==
  Arr(Len(data) - 1, [i \in 1..(Len(data) - 1) |->
    RAbs(RSub(data[i + 1].potential, data[i].potential))])

IsPositive(x) == RGt(x, Zero)

calculatePotentialSpacing(data) ==
  IF Len(data) < 2 THEN One
  ELSE LET spacings == SortAsc(SelectSeq(AbsSpacings(data), IsPositive))
           medianIndex == Len(spacings) \div 2
       IN  IF Len(spacings) = 0 THEN One
           ELSE IF Len(spacings) % 2 = 0
           THEN RDiv(RAdd(At(spacings, medianIndex - 1), At(spacings, medianIndex)), R(2))
           ELSE At(spacings, medianIndex)

\* norm = 2 * sum_{i=1..halfWindow} i^2
RECURSIVE SumSquares(_)
SumSquares(m) == IF m <= 0 THEN 0 ELSE m * m + SumSquares(m - 1)
DerivativeNorm(halfWindow) == 2 * SumSquares(halfWindow)

\* the sum over i..n-3 of |derivative[i] - localMean|, taken by halves
HighFreqSum(derivative, i) ==
  LET Term(k) ==
        LET localMean ==
              RDiv(RAdd(RAdd(RAdd(RAdd(At(derivative, k - 2), At(derivative, k - 1)),
                    At(derivative, k)), At(derivative, k + 1)), At(derivative, k + 2)), R(5))
        IN  RAdd(RAbs(RSub(At(derivative, k), localMean)), Zero)
      RECURSIVE SumOf(_, _)
      SumOf(from, to) ==
        IF from > to THEN Zero
        ELSE IF from = to THEN Term(from)
        ELSE RAdd(SumOf(from, (from + to) \div 2), SumOf((from + to) \div 2 + 1, to))
  IN  SumOf(i, Len(derivative) - 3)

estimateDerivativeNoise(derivative) ==
  IF Len(derivative) < 10 THEN <<1, 10>>
  ELSE LET noiseEstimate == RDiv(HighFreqSum(derivative, 2), R(Len(derivative) - 4))
           signalAmplitude == RSub(RMaxOf(derivative, 1), RMinOf(derivative, 1))
       IN  IF RGt(signalAmplitude, Zero) THEN RDiv(noiseEstimate, signalAmplitude)
           ELSE Zero

validateDerivativeQuality(derivative, potentialSpacing) ==
  IF Len(derivative) = 0 THEN <<"Derivative array is empty">>
  ELSE (IF \/ RGt(RAbs(RMaxOf(derivative, 1)), R(1000000))
           \/ RGt(RAbs(RMinOf(derivative, 1)), R(1000000))
        THEN <<"Extreme derivative values detected - may indicate numerical instability">>
        ELSE <<>>)
       \o (IF BelowTiny(Variance(derivative))
           THEN <<"Derivative is nearly constant - data may be too smooth or linear">>
           ELSE <<>>)
       \o (IF RLt(potentialSpacing, <<1, 1000000>>)
           THEN <<"Very small potential spacing - derivative scaling may be inaccurate">>
           ELSE <<>>)
       \o (IF RGt(estimateDerivativeNoise(derivative), <<1, 2>>)
           THEN <<"High noise level in derivative - consider increasing smoothing window">>
           ELSE <<>>)

DerivativeFallback(data, warnings, message) ==
  [threw |-> FALSE,
   derivativeCurrent |-> Arr(Len(data), [i \in 1..Len(data) |-> Zero]),
   warnings |-> Append(warnings, "Derivative calculation failed: " \o message)]

calculateDerivative(data, config) ==
  IF Len(data) = 0
  THEN [threw |-> TRUE, derivativeCurrent |-> <<>>, warnings |-> <<>>]
  ELSE
    LET currentValues == Currents(data)
        warnings ==
          (IF Len(data) < config.smoothingWindow
           THEN <<"Data length is smaller than derivative window. Results may be unreliable.">>
           ELSE <<>>)
          \o (IF CountNonFinite(currentValues, 1) > 0
              THEN <<"Found invalid current values, they will be ignored in derivative calculation">>
              ELSE <<>>)
        lookup == getDerivativeKernel(config.smoothingWindow)
    IN  IF lookup.threw THEN DerivativeFallback(data, warnings, lookup.message)
        ELSE LET convolutionResult == convolve(currentValues, lookup.kernel, "mirror")
             IN  IF convolutionResult.threw
                 THEN DerivativeFallback(data, warnings, convolutionResult.message)
                 ELSE
                   LET potentialSpacing == calculatePotentialSpacing(data)
                       norm == DerivativeNorm(Len(lookup.kernel) \div 2)
                       scaleFactor == RMul(R(norm), potentialSpacing)
                       raw == convolutionResult.result
                       scaledDerivative ==
                         Arr(Len(raw), [i \in 1..Len(raw) |->
                           IF RGt(scaleFactor, Zero) THEN RDiv(raw[i], scaleFactor)
                           ELSE Zero])
                   IN  [threw |-> FALSE,
                        derivativeCurrent |-> scaledDerivative,
                        warnings |-> warnings \o convolutionResult.warnings
                          \o validateDerivativeQuality(scaledDerivative, potentialSpacing)]

(***************************************************************************)
(* Integration engine.  An error of null is hasError = FALSE.              *)
(***************************************************************************)
\* the sum of the trapezoids i..n-1, taken by halves
TrapzArea(points, i) ==
  LET Term(k) ==
        LET dx == RSub(At(points, k).x, At(points, k - 1).x)
        IN  RAdd(RDiv(RMul(dx, RAdd(At(points, k - 1).y, At(points, k).y)), R(2)), Zero)
      RECURSIVE SumOf(_, _)
      SumOf(from, to) ==
        IF from > to THEN Zero
        ELSE IF from = to THEN Term(from)
        ELSE RAdd(SumOf(from, (from + to) \div 2), SumOf((from + to) \div 2 + 1, to))
  IN  SumOf(i, Len(points) - 1)

\* every other point, from the first
CoarsePoints(points) ==
  Arr((Len(points) + 1) \div 2, [k \in 1..((Len(points) + 1) \div 2) |-> points[2 * k - 1]])

estimateIntegrationError(points, fullArea) ==
  IF Len(points) < 4 THEN Zero
  ELSE RDiv(RAbs(RSub(TrapzArea(CoarsePoints(points), 1), fullArea)), R(3))

trapz(points) ==
  IF Len(points) < 2 THEN [area |-> Zero, hasError |-> FALSE, error |-> Zero]
  ELSE LET area == TrapzArea(points, 1)
       IN  IF Len(points) >= 4
           THEN [area |-> area, hasError |-> TRUE,
                 error |-> estimateIntegrationError(points, area)]
           ELSE [area |-> area, hasError |-> FALSE, error |-> Zero]

\* the sum of the 1-4-1 panels at i, i + 2, ... below n - 2, taken by
\* halves; panel k starts at i + 2k
SimpsonArea(points, i) ==
  LET Term(k) ==
        LET j == i + 2 * k
            h == RSub(At(points, j + 1).x, At(points, j).x)
        IN  RAdd(RMul(RDiv(h, R(3)),
                      RAdd(RAdd(At(points, j).y, RMul(R(4), At(points, j + 1).y)),
                           At(points, j + 2).y)), Zero)
      RECURSIVE SumOf(_, _)
      SumOf(from, to) ==
        IF from > to THEN Zero
        ELSE IF from = to THEN Term(from)
        ELSE RAdd(SumOf(from, (from + to) \div 2), SumOf((from + to) \div 2 + 1, to))
  IN  IF i >= Len(points) - 2 THEN Zero
      ELSE SumOf(0, (Len(points) - 3 - i) \div 2)

\* the 1-4-1 sum taken for every count, without the trapezoidal fallback
simpsonsNoFallback(points) ==
  [area |-> SimpsonArea(points, 0), hasError |-> FALSE, error |-> Zero]

simpsons(points) ==
  IF Len(points) < 3 \/ Len(points) % 2 = 0 THEN trapz(points)
  ELSE [area |-> SimpsonArea(points, 0), hasError |-> FALSE, error |-> Zero]

(***************************************************************************)
(* Peak analyzer.                                                          *)
(***************************************************************************)
\* interior strict local extrema of either sign
RECURSIVE CandidatesAnySign(_, _, _)
CandidatesAnySign(corrected, i, isOxidation) ==
  IF i >= Len(corrected) - 1 THEN <<>>
  ELSE LET c == At(corrected, i)
           hit == IF isOxidation
                  THEN RGt(c, At(corrected, i - 1)) /\ RGt(c, At(corrected, i + 1))
                  ELSE RLt(c, At(corrected, i - 1)) /\ RLt(c, At(corrected, i + 1))
       IN  (IF hit THEN <<[index |-> i, magnitude |-> RAbs(c)]>> ELSE <<>>)
           \o CandidatesAnySign(corrected, i + 1, isOxidation)

\* candidates: interior strict local extrema of the peak's sign, by index
RECURSIVE Candidates(_, _, _)
Candidates(corrected, i, isOxidation) ==
  IF i >= Len(corrected) - 1 THEN <<>>
  ELSE LET c == At(corrected, i)
           hit == IF isOxidation
                  THEN /\ RGt(c, At(corrected, i - 1))
                       /\ RGt(c, At(corrected, i + 1))
                       /\ RGt(c, Zero)
                  ELSE /\ RLt(c, At(corrected, i - 1))
                       /\ RLt(c, At(corrected, i + 1))
                       /\ RLt(c, Zero)
       IN  (IF hit THEN <<[index |-> i, magnitude |-> RAbs(c)]>> ELSE <<>>)
           \o Candidates(corrected, i + 1, isOxidation)

\* the valley of one outward walk; step is -1 (left) or +1 (right)
RECURSIVE ValleyWalk(_, _, _, _, _, _)
ValleyWalk(corrected, i, step, peakVal, valley, isMax) ==
  IF i < 0 \/ i >= Len(corrected) THEN valley
  ELSE LET v == IF isMax THEN RMin(valley, At(corrected, i))
                ELSE RMax(valley, At(corrected, i))
           stop == IF isMax THEN RGt(At(corrected, i), peakVal)
                   ELSE RLt(At(corrected, i), peakVal)
       IN  IF stop THEN v ELSE ValleyWalk(corrected, i + step, step, peakVal, v, isMax)

computeProminence(corrected, peakIdx, isMax) ==
  LET peakVal == At(corrected, peakIdx)
      leftValley == ValleyWalk(corrected, peakIdx - 1, -1, peakVal, peakVal, isMax)
      rightValley == ValleyWalk(corrected, peakIdx + 1, 1, peakVal, peakVal, isMax)
  IN  IF isMax THEN RSub(peakVal, RMax(leftValley, rightValley))
      ELSE RSub(RMin(leftValley, rightValley), peakVal)

\* stable sort by descending prominence
RECURSIVE InsertByProminence(_, _)
InsertByProminence(sorted, c) ==
  IF Len(sorted) = 0 THEN <<c>>
  ELSE IF RGt(c.prominence, sorted[1].prominence) THEN <<c>> \o sorted
  ELSE <<sorted[1]>> \o InsertByProminence(Tail(sorted), c)

RECURSIVE SortByProminence(_)
SortByProminence(cs) ==
  IF Len(cs) = 0 THEN <<>>
  ELSE InsertByProminence(SortByProminence(SubSeq(cs, 1, Len(cs) - 1)), cs[Len(cs)])

\* a variant of the inner loop that keeps the less prominent peak
RECURSIVE MergeInnerKeepsLess(_, _, _, _, _, _)
MergeInnerKeepsLess(peaks, peak, k, minSeparation, used, best) ==
  IF k > Len(peaks) THEN [used |-> used, best |-> best]
  ELSE LET other == peaks[k]
       IN  IF other.index = peak.index \/ other.index \in used
           THEN MergeInnerKeepsLess(peaks, peak, k + 1, minSeparation, used, best)
           ELSE IF Abs(other.index - peak.index) < minSeparation
           THEN IF RLt(other.prominence, best.prominence)
                THEN MergeInnerKeepsLess(peaks, peak, k + 1, minSeparation,
                                         used \cup {other.index, best.index}, other)
                ELSE MergeInnerKeepsLess(peaks, peak, k + 1, minSeparation,
                                         used \cup {other.index}, best)
           ELSE MergeInnerKeepsLess(peaks, peak, k + 1, minSeparation, used, best)

\* the inner loop of mergePeaks over peaks[k..], for the outer peak
RECURSIVE MergeInner(_, _, _, _, _, _)
MergeInner(peaks, peak, k, minSeparation, used, best) ==
  IF k > Len(peaks) THEN [used |-> used, best |-> best]
  ELSE LET other == peaks[k]
       IN  IF other.index = peak.index \/ other.index \in used
           THEN MergeInner(peaks, peak, k + 1, minSeparation, used, best)
           ELSE IF Abs(other.index - peak.index) < minSeparation
           THEN IF RGt(other.prominence, best.prominence)
                THEN MergeInner(peaks, peak, k + 1, minSeparation,
                                used \cup {other.index, best.index}, other)
                ELSE MergeInner(peaks, peak, k + 1, minSeparation,
                                used \cup {other.index}, best)
           ELSE MergeInner(peaks, peak, k + 1, minSeparation, used, best)

RECURSIVE MergeOuter(_, _, _, _, _)
MergeOuter(peaks, i, minSeparation, used, merged) ==
  IF i > Len(peaks) THEN merged
  ELSE IF peaks[i].index \in used
  THEN MergeOuter(peaks, i + 1, minSeparation, used, merged)
  ELSE LET r == MergeInner(peaks, peaks[i], 1, minSeparation, used, peaks[i])
       IN  MergeOuter(peaks, i + 1, minSeparation, r.used \cup {r.best.index},
                      Append(merged, r.best))

\* every candidate kept, however close
mergePeaksKeepsAll(peaks, minSeparation) == peaks

mergePeaks(peaks, minSeparation) ==
  IF Len(peaks) <= 1 THEN peaks
  ELSE MergeOuter(peaks, 1, minSeparation, {}, <<>>)

\* the walk stopping on the last sample before the signal returns to zero
RECURSIVE BoundaryWalkInside(_, _, _, _, _)
BoundaryWalkInside(corrected, i, step, reached, isMax) ==
  IF i < 0 \/ i >= Len(corrected) THEN reached
  ELSE IF (IF isMax THEN RLe(At(corrected, i), Zero) ELSE RGe(At(corrected, i), Zero))
  THEN reached
  ELSE BoundaryWalkInside(corrected, i + step, step, i, isMax)

\* walk outward from i by step until the corrected signal returns to zero
RECURSIVE BoundaryWalk(_, _, _, _, _)
BoundaryWalk(corrected, i, step, reached, isMax) ==
  IF i < 0 \/ i >= Len(corrected) THEN reached
  ELSE IF (IF isMax THEN RLe(At(corrected, i), Zero) ELSE RGe(At(corrected, i), Zero))
  THEN i
  ELSE BoundaryWalk(corrected, i + step, step, i, isMax)

findPeakBoundaries(corrected, peakIdx, isMax) ==
  [startIndex |-> BoundaryWalk(corrected, peakIdx - 1, -1, peakIdx, isMax),
   endIndex |-> BoundaryWalk(corrected, peakIdx + 1, 1, peakIdx, isMax)]

\* a variant measuring the offset from the centre sample
PeakOffsetFromCentre(yL, yC, yR, denom) == RDiv(RSub(yC, yR), denom)
\* a variant dividing by half the denominator
PeakOffsetUnhalved(yL, yC, yR, denom) == RDiv(RSub(yL, yR), RDiv(denom, R(2)))
\* offset = (yL - yR) / denom
PeakOffset(yL, yC, yR, denom) == RDiv(RSub(yL, yR), denom)

interpolatePeakPotential(smoothed, corrected, peakIdx) ==
  IF peakIdx <= 0 \/ peakIdx >= Len(corrected) - 1
  THEN At(smoothed, peakIdx).potential
  ELSE LET yL == At(corrected, peakIdx - 1)
           yC == At(corrected, peakIdx)
           yR == At(corrected, peakIdx + 1)
           denom == RMul(R(2), RSub(RSub(RMul(R(2), yC), yL), yR))
           eL == At(smoothed, peakIdx - 1).potential
           eC == At(smoothed, peakIdx).potential
           eR == At(smoothed, peakIdx + 1).potential
       IN  IF BelowTiny(denom) THEN eC
           ELSE LET offset == PeakOffset(yL, yC, yR, denom)
                IN  IF RGe(offset, Zero)
                    THEN RAdd(eC, RMul(offset, RSub(eR, eC)))
                    ELSE RAdd(eC, RMul(offset, RSub(eC, eL)))

\* baseline[i]?.current ?? 0
BaselineAt(baseline, i) == IF i < Len(baseline) THEN At(baseline, i).current ELSE Zero

RECURSIVE buildIntegrationPoints(_, _, _, _, _)
buildIntegrationPoints(data, baseline, startIndex, endIndex, useTime) ==
  IF ~(startIndex <= endIndex /\ startIndex < Len(data)) THEN <<>>
  ELSE LET p == At(data, startIndex)
           y == RSub(p.current, BaselineAt(baseline, startIndex))
           x == IF useTime /\ p.hasTime THEN p.time ELSE p.potential
       IN  <<[x |-> x, y |-> y]>>
           \o buildIntegrationPoints(data, baseline, startIndex + 1, endIndex, useTime)

\* the integral with its sign kept
integratePeakAreaSigned(data, baseline, startIndex, endIndex, useTime) ==
  LET pts == buildIntegrationPoints(data, baseline, startIndex, endIndex, useTime)
  IN  IF Len(pts) < 2 THEN Zero
      ELSE (IF Len(pts) >= 3 /\ Len(pts) % 2 = 1 THEN simpsons(pts)
            ELSE trapz(pts)).area

integratePeakArea(data, baseline, startIndex, endIndex, useTime) ==
  LET pts == buildIntegrationPoints(data, baseline, startIndex, endIndex, useTime)
  IN  IF Len(pts) < 2 THEN Zero
      ELSE RAbs((IF Len(pts) >= 3 /\ Len(pts) % 2 = 1 THEN simpsons(pts)
                 ELSE trapz(pts)).area)

\* smoothed[0]?.time !== undefined
HasTime(smoothed) == Len(smoothed) > 0 /\ smoothed[1].hasTime

BuildPeak(smoothed, baseline, corrected, peak, isOxidation) ==
  LET b == findPeakBoundaries(corrected, peak.index, isOxidation)
      hasTime == HasTime(smoothed)
  IN  [index |-> peak.index,
       potential |-> interpolatePeakPotential(smoothed, corrected, peak.index),
       current |-> At(smoothed, peak.index).current,
       rawCurrent |-> At(smoothed, peak.index).current,
       height |-> RAbs(At(corrected, peak.index)),
       area |-> integratePeakArea(smoothed, baseline, b.startIndex, b.endIndex, hasTime),
       chargeUnit |-> IF hasTime THEN "C" ELSE "V.A",
       startIndex |-> b.startIndex,
       endIndex |-> b.endIndex,
       startPotential |-> At(smoothed, b.startIndex).potential,
       endPotential |-> At(smoothed, b.endIndex).potential,
       type |-> IF isOxidation THEN "oxidation" ELSE "reduction"]

\* the insertion with the direction ignored: always ascending
RECURSIVE InsertByPotentialAscending(_, _, _)
InsertByPotentialAscending(sorted, pk, isOxidation) ==
  IF Len(sorted) = 0 THEN <<pk>>
  ELSE IF RLt(pk.potential, sorted[1].potential)
  THEN <<pk>> \o sorted
  ELSE <<sorted[1]>> \o InsertByPotentialAscending(Tail(sorted), pk, isOxidation)

\* stable sort by potential: ascending for oxidation, descending for reduction
RECURSIVE InsertByPotential(_, _, _)
InsertByPotential(sorted, pk, isOxidation) ==
  IF Len(sorted) = 0 THEN <<pk>>
  ELSE IF (IF isOxidation THEN RLt(pk.potential, sorted[1].potential)
           ELSE RGt(pk.potential, sorted[1].potential))
  THEN <<pk>> \o sorted
  ELSE <<sorted[1]>> \o InsertByPotential(Tail(sorted), pk, isOxidation)

RECURSIVE SortByPotential(_, _)
SortByPotential(peaks, isOxidation) ==
  IF Len(peaks) = 0 THEN <<>>
  ELSE InsertByPotential(SortByPotential(SubSeq(peaks, 1, Len(peaks) - 1), isOxidation),
                         peaks[Len(peaks)], isOxidation)

MinSeparation(n) == Max(5, n \div 50)

findCVPeaks(smoothed, baseline, corrected, direction, prominenceThreshold) ==
  LET n == Len(corrected)
      isOxidation == (direction = "forward")
      candidates == Candidates(corrected, 1, isOxidation)
  IN  IF n < 5 \/ Len(candidates) = 0 THEN <<>>
      ELSE
        LET mags == Arr(Len(candidates), [i \in 1..Len(candidates) |-> candidates[i].magnitude])
            minProminence == RMul(RMaxOf(mags, 1), prominenceThreshold)
            withP == Arr(Len(candidates), [i \in 1..Len(candidates) |->
                       [index |-> candidates[i].index,
                        magnitude |-> candidates[i].magnitude,
                        prominence |-> computeProminence(corrected, candidates[i].index,
                                                         isOxidation)]])
            Keep(c) == RGe(c.prominence, minProminence)
            withProminence == SortByProminence(SelectSeq(withP, Keep))
            merged == mergePeaks(withProminence, MinSeparation(n))
            peaks == Arr(Len(merged), [i \in 1..Len(merged) |->
                       BuildPeak(smoothed, baseline, corrected, merged[i], isOxidation)])
        IN  SortByPotential(peaks, isOxidation)

(***************************************************************************)
(* Scan orchestrator.                                                      *)
(***************************************************************************)
buildEndpointBaseline(data) ==
  IF Len(data) < 2
  THEN Arr(Len(data), [i \in 1..Len(data) |-> Point(data[i].potential, Zero)])
  ELSE LET first == data[1]
           last == data[Len(data)]
           potentialRange == RSub(last.potential, first.potential)
       IN  IF BelowTiny(potentialRange)
           THEN LET avg == RDiv(RAdd(first.current, last.current), R(2))
                IN  Arr(Len(data), [i \in 1..Len(data) |-> Point(data[i].potential, avg)])
           ELSE LET slope == RDiv(RSub(last.current, first.current), potentialRange)
                    intercept == RSub(first.current, RMul(slope, first.potential))
                IN  Arr(Len(data), [i \in 1..Len(data) |->
                      Point(data[i].potential,
                            RAdd(RMul(slope, data[i].potential), intercept))])

\* step 1, with its catch
SmoothingStage(scanData, config) ==
  IF config.smoothingEnabled
  THEN LET smoothingResult == applySmoothing(scanData, config)
       IN  IF smoothingResult.threw
           THEN [smoothed |-> scanData, warnings |-> <<"Smoothing failed, using raw data">>]
           ELSE [smoothed |-> smoothingResult.smoothedData,
                 warnings |-> smoothingResult.warnings]
  ELSE [smoothed |-> scanData, warnings |-> <<>>]

\* step 2, with its catch
DerivativeStage(smoothed, config) ==
  LET derivativeResult == calculateDerivative(smoothed, config)
  IN  IF derivativeResult.threw
      THEN [derivative |-> Arr(Len(smoothed), [i \in 1..Len(smoothed) |-> Zero]),
            warnings |-> <<"Derivative calculation failed">>]
      ELSE [derivative |-> derivativeResult.derivativeCurrent,
            warnings |-> derivativeResult.warnings]

\* a variant of step 3 without the catch
BaselineStageNoCatch(smoothed, scanDirection, config) ==
  LET r == computeBaseline(smoothed, scanDirection, config)
  IN  [threw |-> r.threw, baseline |-> r.value, warnings |-> <<>>]
\* a variant of step 3 that warns of a degenerate least-squares system
BaselineStageWarnsDegenerate(smoothed, scanDirection, config) ==
  LET r == computeBaseline(smoothed, scanDirection, config)
      degenerate ==
        /\ config.baselineMethod = "linear"
        /\ Len(smoothed) >= 3
        /\ ~r.threw
        /\ BelowTiny(LeastSquaresDenom(
             Anchors(smoothed, AnchorCount(Len(smoothed), config.linearAnchorFraction))))
  IN  IF r.threw
      THEN [threw |-> FALSE, baseline |-> buildEndpointBaseline(smoothed),
            warnings |-> <<"Baseline fitting failed, using endpoint interpolation">>]
      ELSE [threw |-> FALSE, baseline |-> r.value,
            warnings |-> IF degenerate
                         THEN <<"Degenerate least-squares system, horizontal baseline used">>
                         ELSE <<>>]
\* step 3, with its catch; threw tells whether an exception leaves the stage
BaselineStage(smoothed, scanDirection, config) ==
  LET r == computeBaseline(smoothed, scanDirection, config)
  IN  IF r.threw
      THEN [threw |-> FALSE, baseline |-> buildEndpointBaseline(smoothed),
            warnings |-> <<"Baseline fitting failed, using endpoint interpolation">>]
      ELSE [threw |-> FALSE, baseline |-> r.value, warnings |-> <<>>]

\* step 4: smoothed.map((p, i) => p.current - (baseline[i]?.current ?? 0))
Corrected(smoothed, baseline) ==
  Arr(Len(smoothed), [i \in 1..Len(smoothed) |->
    RSub(smoothed[i].current, BaselineAt(baseline, i - 1))])

EmptyResult(raised) ==
  [raised |-> raised, smoothed |-> <<>>, derivative |-> <<>>, baseline |-> <<>>,
   peaks |-> <<>>, warnings |-> <<>>]

\* steps 4 and 5, and the returned record; each stage's output is a
\* constant of the source, bound here to its value once
AssembleResult(sm, dv, bl, scanDirection, config) ==
  IF bl.threw THEN EmptyResult(TRUE)
  ELSE CHOOSE r \in
         {[raised |-> FALSE,
           smoothed |-> sm.smoothed,
           derivative |-> dv.derivative,
           baseline |-> bl.baseline,
           peaks |-> findCVPeaks(sm.smoothed, bl.baseline, corrected,
                                 scanDirection, config.peakProminenceThreshold),
           warnings |-> sm.warnings \o dv.warnings \o bl.warnings] :
          corrected \in {Corrected(sm.smoothed, bl.baseline)}} : TRUE

\* steps 2 and 3 on the smoothed scan
AnalyzeSmoothed(sm, config, scanDirection) ==
  CHOOSE r \in
    {AssembleResult(sm, dv, bl, scanDirection, config) :
       dv \in {DerivativeStage(sm.smoothed, config)},
       bl \in {BaselineStage(sm.smoothed, scanDirection, config)}} : TRUE

analyzeCVScan(scanData, config, scanDirection) ==
  IF Len(scanData) = 0 THEN EmptyResult(FALSE)
  ELSE CHOOSE r \in
         {AnalyzeSmoothed(sm, config, scanDirection) :
            sm \in {SmoothingStage(scanData, config)}} : TRUE

(***************************************************************************)
(* Pair parameters of a cycle.                                             *)
(***************************************************************************)
\* the two scan directions of a cycle
Directions == {"forward", "reverse"}

\* analyzeCycle: the forward and the reverse scan of a cycle, each analysed
analyzeCycle(forwardScan, reverseScan, config) ==
  LET scans == [forward |-> forwardScan, reverse |-> reverseScan]
  IN  [direction \in Directions |->
         analyzeCVScan(scans[direction], config, direction)]

\* cvPairParams: null unless both scans have peaks; otherwise from the first
\* peak of each list
cvPairParams(forwardPeaks, reversePeaks) ==
  IF Len(forwardPeaks) = 0 \/ Len(reversePeaks) = 0
  THEN [isNull |-> TRUE, deltaEp |-> Zero, halfWavePotential |-> Zero,
        peakCurrentRatio |-> Zero]
  ELSE LET fwdPeak == forwardPeaks[1]
           revPeak == reversePeaks[1]
           epa == fwdPeak.potential
           epc == revPeak.potential
           ipa == fwdPeak.height
           ipc == revPeak.height
       IN  [isNull |-> FALSE,
            deltaEp |-> RSub(epa, epc),
            halfWavePotential |-> RDiv(RAdd(epa, epc), R(2)),
            peakCurrentRatio |-> IF RGt(ipc, Zero) THEN RDiv(ipa, ipc) ELSE Zero]

(***************************************************************************)
(* Inputs.                                                                 *)
(***************************************************************************)
CurrentVals == {0, 1, 3}

SeqsUpTo(S, n) == UNION {[1..k -> S] : k \in 0..n}

\* a scan of the given currents on uniformly spaced potentials, rising for
\* a forward scan and falling for a reverse scan
ScanOf(cs, direction) ==
  Arr(Len(cs), [i \in 1..Len(cs) |->
     Point(R(IF direction = "forward" THEN i - 1 ELSE Len(cs) - i), R(cs[i]))])

\* the same scan with its potential held at 0 ("hold") or swept ("sweep"),
\* and a time value 10, 12, 14, ... on the first sample (timeFirst) and on
\* the others (timeRest) or absent
Shapes == {"sweep", "hold"}
TimedScanOf(cs, direction, shape, timeFirst, timeRest) ==
  Arr(Len(cs), [i \in 1..Len(cs) |->
     LET e == IF shape = "hold" THEN Zero
              ELSE R(IF direction = "forward" THEN i - 1 ELSE Len(cs) - i)
     IN  IF (i = 1 /\ timeFirst) \/ (i > 1 /\ timeRest)
         THEN TimedPoint(e, R(cs[i]), R(10 + 2 * (i - 1)))
         ELSE Point(e, R(cs[i]))])

(***************************************************************************)
(* Specification of rubberbandBaseline.                                    *)
(***************************************************************************)
RubberbandWindows == {4, 80}

InitRubberband ==
  /\ pc = "ready"
  /\ \E cs \in SeqsUpTo(CurrentVals, MaxLen), d \in Directions,
        it \in 0..MaxIter, w \in RubberbandWindows :
       args = [fn |-> "rubberbandBaseline", data |-> ScanOf(cs, d), direction |-> d,
               iterations |-> it, windowSize |-> w]
  /\ result = <<>>

CallRubberband ==
  /\ pc = "ready"
  /\ args.fn = "rubberbandBaseline"
  /\ result' = rubberbandBaseline(args.data, args.direction, args.iterations, args.windowSize)
  /\ pc' = "done"
  /\ UNCHANGED args

NextRubberband == CallRubberband

SpecRubberband == InitRubberband /\ [][NextRubberband]_vars

\* C1: the rubberband baseline never crosses the data on the peak side:
\* baseline[i].current <= data[i].current at every index for a forward scan,
\* >= for a reverse scan, for every length, iteration count and window size.
C1_RubberbandOrdering ==
  (pc = "done" /\ args.fn = "rubberbandBaseline") =>
     /\ Len(result) = Len(args.data)
     /\ \A i \in 1..Len(args.data) :
          IF args.direction = "forward"
          THEN RLe(result[i].current, args.data[i].current)
          ELSE RGe(result[i].current, args.data[i].current)

\* a run of at least one iteration on a sequence long enough to be filtered,
\* where the clamp pulled the baseline strictly off the data somewhere
C1_Witness ==
  /\ pc = "done" /\ args.fn = "rubberbandBaseline"
  /\ Len(args.data) >= 3 /\ args.iterations >= 1
  /\ \E i \in 1..Len(args.data) : result[i].current # args.data[i].current
  /\ \E i \in 1..Len(args.data) :
       RubberbandIterate(Currents(args.data), 2, args.direction = "forward",
                         args.iterations)[i] # result[i].current


(***************************************************************************)
(* Specification of computeBaseline.                                       *)
(***************************************************************************)
Methods == {"rubberband", "linear", "asls", "spline"}   \* "spline" is no known method
AnchorFractions == {<<1, 10>>, <<1, 1>>}

\* AnalysisConfig.  The rationals of the ASLS solve stay within TLC's
\* integers for lambda = 1 and p = 1/4 on the currents drawn here.
Config(smoothing, window, method, fraction, iterations) ==
  [smoothingEnabled |-> smoothing, smoothingWindow |-> window,
   baselineMethod |-> method, aslsLambda |-> One, aslsP |-> <<1, 4>>,
   rubberbandIterations |-> iterations, rubberbandWindowSize |-> 80,
   linearAnchorFraction |-> fraction, peakProminenceThreshold |-> <<1, 20>>]

\* the exact solve is drawn on the shortest sequences that are solved
AslsDrawn(method, n) == method = "asls" => n <= ASLS_MIN_LEN

InitBaseline ==
  /\ pc = "ready"
  /\ \E cs \in SeqsUpTo(CurrentVals, MaxLen), d \in Directions,
        m \in Methods, fr \in AnchorFractions :
       /\ AslsDrawn(m, Len(cs))
       /\ (m # "linear" => fr = <<1, 10>>)
       /\ args = [fn |-> "computeBaseline", data |-> ScanOf(cs, d), direction |-> d,
                  config |-> Config(FALSE, 5, m, fr, 1)]
  /\ result = <<>>

CallComputeBaseline ==
  /\ pc = "ready"
  /\ args.fn = "computeBaseline"
  /\ result' = computeBaseline(args.data, args.direction, args.config)
  /\ pc' = "done"
  /\ UNCHANGED args

NextBaseline == CallComputeBaseline

SpecBaseline == InitBaseline /\ [][NextBaseline]_vars

BaselineDone == pc = "done" /\ args.fn = "computeBaseline" /\ ~result.threw

\* baseline on the peak side of the data at every index
OrderingHolds(baseline, data, direction) ==
  \A i \in 1..Len(data) :
    IF direction = "forward"
    THEN RLe(baseline[i].current, data[i].current)
    ELSE RGe(baseline[i].current, data[i].current)

\* C4 as stated: for every method the baseline stays at or below the data
\* (forward) or at or above it (reverse) at every index.
C4_AllMethodsOrdering ==
  BaselineDone => OrderingHolds(result.value, args.data, args.direction)

\* C4 amended: the ordering holds for the rubberband method and for an
\* unknown selector, and for the linear and ASLS methods on the sequences
\* they return unchanged (fewer than 3, resp. fewer than 5 samples).
C4_OrderingWhereGuaranteed ==
  (/\ BaselineDone
   /\ \/ args.config.baselineMethod \notin {"linear", "asls"}
      \/ args.config.baselineMethod = "linear" /\ Len(args.data) < 3
      \/ args.config.baselineMethod = "asls" /\ Len(args.data) < ASLS_MIN_LEN)
  => OrderingHolds(result.value, args.data, args.direction)

\* an unknown selector dispatched on a sequence long enough to be filtered,
\* the baseline strictly off the data somewhere
C4_Witness ==
  /\ BaselineDone
  /\ args.config.baselineMethod = "spline"
  /\ Len(args.data) >= 3
  /\ \E i \in 1..Len(args.data) : result.value[i].current # args.data[i].current

\* C5: for every method and every length the baseline has the length of
\* the input and the input's potential at every index.
C5_BaselineAligned ==
  BaselineDone =>
    /\ Len(result.value) = Len(args.data)
    /\ \A i \in 1..Len(args.data) :
         result.value[i].potential = args.data[i].potential

\* a fitted line over a sequence longer than its anchors
C5_Witness ==
  /\ BaselineDone
  /\ args.config.baselineMethod = "linear"
  /\ Len(args.data) > 2 * AnchorCount(Len(args.data), args.config.linearAnchorFraction)
  /\ \E i \in 1..Len(args.data) : result.value[i].current # args.data[i].current


(***************************************************************************)
(* Specification of analyzeCVScan.                                         *)
(***************************************************************************)
\* configurations: the smoothing switch and window (7 is in no kernel
\* table), every baseline method and an unknown one,
\* anchor fractions inside and outside [0, 1]
Configs ==
  {Config(TRUE, 5, "rubberband", <<1, 10>>, 1),
   Config(FALSE, 5, "rubberband", <<1, 10>>, 1),
   Config(TRUE, 7, "rubberband", <<1, 10>>, 1),
   Config(TRUE, 5, "linear", <<1, 10>>, 1),
   Config(FALSE, 5, "linear", <<1, 10>>, 1),
   Config(FALSE, 5, "linear", <<2, 1>>, 1),
   Config(FALSE, 5, "linear", <<-1, 2>>, 1),
   Config(FALSE, 5, "asls", <<1, 10>>, 1),
   Config(FALSE, 5, "spline", <<1, 10>>, 1)}

\* the scans drawn: untimed sweeps under every configuration; timed and
\* partly timed sweeps, and held potentials, under the rubberband and
\* linear configurations
ScanFamily(shape, timeFirst, timeRest, config) ==
  \/ shape = "sweep" /\ ~timeFirst /\ ~timeRest
  \/ /\ shape = "sweep" /\ (timeFirst \/ timeRest)
     /\ config \in {Config(TRUE, 5, "rubberband", <<1, 10>>, 1),
                    Config(FALSE, 5, "rubberband", <<1, 10>>, 1),
                    Config(TRUE, 7, "rubberband", <<1, 10>>, 1)}
  \/ /\ shape = "hold" /\ ~timeFirst /\ ~timeRest
     /\ config \in {Config(FALSE, 5, "linear", <<1, 10>>, 1),
                    Config(FALSE, 5, "rubberband", <<1, 10>>, 1)}

Init ==
  /\ pc = "ready"
  /\ \E cs \in SeqsUpTo(CurrentVals, MaxLen), d \in Directions, sh \in Shapes,
        tf \in BOOLEAN, tr \in BOOLEAN, cfg \in Configs :
       /\ ScanFamily(sh, tf, tr, cfg)
       /\ AslsDrawn(cfg.baselineMethod, Len(cs))
       /\ args = [fn |-> "analyzeCVScan", scanData |-> TimedScanOf(cs, d, sh, tf, tr),
                  config |-> cfg, scanDirection |-> d]
  /\ result = <<>>

CallAnalyzeCVScan ==
  /\ pc = "ready"
  /\ args.fn = "analyzeCVScan"
  /\ result' = analyzeCVScan(args.scanData, args.config, args.scanDirection)
  /\ pc' = "done"
  /\ UNCHANGED args

Next == CallAnalyzeCVScan

Spec == Init /\ [][Next]_vars

AnalyzeDone == pc = "done" /\ args.fn = "analyzeCVScan"

Range(seq) == {seq[i] : i \in 1..Len(seq)}
AllTimed(data) == \A i \in 1..Len(data) : data[i].hasTime
BaselineWarning == "Baseline fitting failed, using endpoint interpolation"

\* the abscissae a peak of the result was integrated over
PeakAbscissae(pk) ==
  LET pts == buildIntegrationPoints(result.smoothed, result.baseline,
                                    pk.startIndex, pk.endIndex, pk.chargeUnit = "C")
  IN  Arr(Len(pts), [j \in 1..Len(pts) |-> pts[j].x])
\* the times, and the potentials, of the scan between a peak's boundaries
PeakTimes(pk) ==
  Arr(pk.endIndex - pk.startIndex + 1, [j \in 1..(pk.endIndex - pk.startIndex + 1) |->
    IF At(args.scanData, pk.startIndex + j - 1).hasTime
    THEN At(args.scanData, pk.startIndex + j - 1).time ELSE <<"undefined">>])
PeakPotentials(pk) ==
  Arr(pk.endIndex - pk.startIndex + 1, [j \in 1..(pk.endIndex - pk.startIndex + 1) |->
    At(args.scanData, pk.startIndex + j - 1).potential])

(* C2: for a scan whose samples all carry a time value, every peak has     *)
(* charge unit "C" and is integrated over time, with smoothing enabled or  *)
(* disabled.                                                               *)
C2_TimedScansInCoulombs ==
  (AnalyzeDone /\ AllTimed(args.scanData)) =>
     \A k \in 1..Len(result.peaks) :
        /\ result.peaks[k].chargeUnit = "C"
        /\ PeakAbscissae(result.peaks[k]) = PeakTimes(result.peaks[k])

(* C3: analyzeCVScan never raises; the smoothed, derivative and baseline   *)
(* sequences have the input's length; an empty scan gives empty sequences, *)
(* no peaks and no warnings.                                               *)
C3_NeverRaises ==
  AnalyzeDone =>
     /\ ~result.raised
     /\ Len(result.smoothed) = Len(args.scanData)
     /\ Len(result.derivative) = Len(args.scanData)
     /\ Len(result.baseline) = Len(args.scanData)
     /\ Len(args.scanData) = 0 => (result.peaks = <<>> /\ result.warnings = <<>>)

\* a scan whose linear fit raised inside the baseline stage and was replaced
\* by the endpoint line
C3_Witness ==
  /\ AnalyzeDone
  /\ Len(args.scanData) >= 3
  /\ args.config.baselineMethod = "linear"
  /\ computeBaseline(result.smoothed, args.scanDirection, args.config).threw
  /\ BaselineWarning \in Range(result.warnings)
  /\ result.baseline = buildEndpointBaseline(result.smoothed)

(* C6: a peak is integrated over time only if every sample of the scan has *)
(* a time value; if one sample lacks it, every abscissa is the potential   *)
(* and the charge unit is "V.A".                                           *)
C6_AxisAllOrNothing ==
  (AnalyzeDone /\ ~AllTimed(args.scanData)) =>
     \A k \in 1..Len(result.peaks) :
        /\ result.peaks[k].chargeUnit = "V.A"
        /\ PeakAbscissae(result.peaks[k]) = PeakPotentials(result.peaks[k])

\* the linear fit of the scan took the horizontal-line fallback
DegenerateFit ==
  /\ args.config.baselineMethod = "linear"
  /\ Len(result.smoothed) >= 3
  /\ ~computeBaseline(result.smoothed, args.scanDirection, args.config).threw
  /\ BelowTiny(LeastSquaresDenom(
       Anchors(result.smoothed,
               AnchorCount(Len(result.smoothed), args.config.linearAnchorFraction))))

(* C7 as stated: a degenerate least-squares system, and an empty peak set, *)
(* each leave at least one warning in the result.                          *)
C7_RecoverableAlwaysWarned ==
  (AnalyzeDone /\ Len(args.scanData) > 0 /\ (DegenerateFit \/ result.peaks = <<>>)) =>
     result.warnings # <<>>

(* C7: the warnings of a result are those of the smoothing stage, then     *)
(* those of the derivative stage, then the baseline-failure warning if and *)
(* only if the baseline method raised; a degenerate least-squares system   *)
(* and an empty peak set add none.                                         *)
C7_WarningsFromStagesOnly ==
  (AnalyzeDone /\ Len(args.scanData) > 0) =>
     LET sm == SmoothingStage(args.scanData, args.config)
         dv == DerivativeStage(sm.smoothed, args.config)
         threw == computeBaseline(sm.smoothed, args.scanDirection, args.config).threw
     IN  /\ result.warnings =
              sm.warnings \o dv.warnings \o (IF threw THEN <<BaselineWarning>> ELSE <<>>)
         /\ (BaselineWarning \in Range(result.warnings)) <=> threw

\* a degenerate fit with no peaks and no warning about either
C7_Witness ==
  /\ AnalyzeDone
  /\ DegenerateFit
  /\ result.peaks = <<>>
  /\ BaselineWarning \notin Range(result.warnings)

(***************************************************************************)
(* Specification of calculateDerivative on straight-line scans.            *)
(***************************************************************************)
MaxDerivLen == 9
Spacings == {<<1, 2>>, One, R(2)}
Slopes == {-1, 0, 1, 2}
Offsets == {0, 1}
DerivativeWindows == {5, 9}

\* n samples, potentials e0, e0 + step, ..., current a * potential + b
LineScan(n, step, a, b) ==
  Arr(n, [i \in 1..n |->
    LET e == RMul(R(i - 1), step)
    IN  Point(e, RAdd(RMul(R(a), e), R(b)))])

InitDerivative ==
  /\ pc = "ready"
  /\ \E n \in 5..MaxDerivLen, h \in Spacings, rising \in BOOLEAN,
        a \in Slopes, b \in Offsets, w \in DerivativeWindows :
       args = [fn |-> "calculateDerivative",
               data |-> LineScan(n, IF rising THEN h ELSE RNeg(h), a, b),
               config |-> Config(FALSE, w, "rubberband", <<1, 10>>, 1)]
  /\ result = <<>>

CallCalculateDerivative ==
  /\ pc = "ready"
  /\ args.fn = "calculateDerivative"
  /\ result' = calculateDerivative(args.data, args.config)
  /\ pc' = "done"
  /\ UNCHANGED args

NextDerivative == CallCalculateDerivative

SpecDerivative == InitDerivative /\ [][NextDerivative]_vars

DerivativeDone == pc = "done" /\ args.fn = "calculateDerivative"
\* the slope of the drawn line with respect to potential
TrueSlope(data) ==
  RDiv(RSub(data[2].current, data[1].current), RSub(data[2].potential, data[1].potential))
InteriorIndices(n, m) == {i \in 0..(n - 1) : m <= i /\ i <= n - 1 - m}

(* C8: on uniformly spaced potentials, rising or falling, with current     *)
(* a * potential + b, the derivative equals a at every interior index.     *)
C8_CalibratedDerivative ==
  DerivativeDone =>
     /\ ~result.threw
     /\ \A i \in InteriorIndices(Len(args.data), args.config.smoothingWindow \div 2) :
          At(result.derivativeCurrent, i) = TrueSlope(args.data)

(***************************************************************************)
(* Specification of interpolatePeakPotential on three-sample neighbourhoods*)
(***************************************************************************)
CorrectedVals == {0, 1, 2, 3}

InitInterp ==
  /\ pc = "ready"
  /\ \E yL \in CorrectedVals, yC \in CorrectedVals, yR \in CorrectedVals,
        h \in Spacings, rising \in BOOLEAN, negate \in BOOLEAN, peakIdx \in 0..2 :
       LET sgn == IF negate THEN -1 ELSE 1
       IN  args = [fn |-> "interpolatePeakPotential",
                   smoothed |-> LineScan(3, IF rising THEN h ELSE RNeg(h), 0, 0),
                   corrected |-> <<R(sgn * yL), R(sgn * yC), R(sgn * yR)>>,
                   peakIdx |-> peakIdx]
  /\ result = <<>>

CallInterpolatePeakPotential ==
  /\ pc = "ready"
  /\ args.fn = "interpolatePeakPotential"
  /\ result' = interpolatePeakPotential(args.smoothed, args.corrected, args.peakIdx)
  /\ pc' = "done"
  /\ UNCHANGED args

NextInterp == CallInterpolatePeakPotential

SpecInterp == InitInterp /\ [][NextInterp]_vars

InterpDone == pc = "done" /\ args.fn = "interpolatePeakPotential"
InteriorApex == 0 < args.peakIdx /\ args.peakIdx < Len(args.corrected) - 1
ApexL == At(args.corrected, args.peakIdx - 1)
ApexC == At(args.corrected, args.peakIdx)
ApexR == At(args.corrected, args.peakIdx + 1)
StrictExtremum ==
  \/ RGt(ApexC, ApexL) /\ RGt(ApexC, ApexR)
  \/ RLt(ApexC, ApexL) /\ RLt(ApexC, ApexR)
\* the potential of the vertex of the parabola through the three samples
VertexPotential ==
  LET eC == At(args.smoothed, args.peakIdx).potential
      eR == At(args.smoothed, args.peakIdx + 1).potential
      curvature == RAdd(RSub(ApexL, RMul(R(2), ApexC)), ApexR)
  IN  RAdd(eC, RMul(RDiv(RSub(ApexL, ApexR), RMul(R(2), curvature)), RSub(eR, eC)))

(* C9: for an interior apex that is a strict local extremum on uniformly   *)
(* spaced potentials, the returned potential is that of the vertex of the  *)
(* parabola through the apex and its two neighbours.                       *)
C9_ReturnsParabolaVertex ==
  (InterpDone /\ InteriorApex /\ StrictExtremum) => result = VertexPotential

(* C10: when the two neighbours of an interior apex are equal, and when    *)
(* the curvature denominator 2(2yC - yL - yR) is zero, the discrete apex   *)
(* potential is returned.                                                  *)
C10_SymmetricApex ==
  (InterpDone /\ InteriorApex) =>
     ((ApexL = ApexR \/ RSub(RSub(RMul(R(2), ApexC), ApexL), ApexR) = Zero)
        => result = At(args.smoothed, args.peakIdx).potential)

\* a symmetric bump: equal neighbours below the apex
C10_Witness ==
  /\ InterpDone
  /\ InteriorApex
  /\ ApexL = ApexR
  /\ RGt(ApexC, ApexL)
  /\ result = At(args.smoothed, args.peakIdx).potential

(***************************************************************************)
(* Specification of findCVPeaks on five-sample scans, the shortest that    *)
(* report a peak, for the potential each reported peak carries.            *)
(***************************************************************************)
\* the potentials of a scan: rising, falling, unevenly spaced, turning at
\* the middle sample, and with one potential repeated
ApexPotentials ==
  {<<0, 1, 2, 3, 4>>, <<4, 3, 2, 1, 0>>, <<0, 1, 3, 4, 8>>, <<0, 1, 2, 1, 0>>,
   <<0, 1, 1, 2, 3>>}

\* smoothed, with a zero baseline under it: corrected is its current
ApexScan(potentials, currents) ==
  Arr(Len(potentials), [i \in 1..Len(potentials) |->
    Point(R(potentials[i]), currents[i])])

InitOffset ==
  /\ pc = "ready"
  /\ \E potentials \in ApexPotentials, direction \in Directions,
        ys \in [1..5 -> CorrectedVals] :
       LET sgn == IF direction = "forward" THEN 1 ELSE -1
           corrected == Arr(5, [i \in 1..5 |-> R(sgn * ys[i])])
       IN  args = [fn |-> "findCVPeaks",
                   smoothed |-> ApexScan(potentials, corrected),
                   baseline |-> ApexScan(potentials, [i \in 1..5 |-> Zero]),
                   corrected |-> corrected,
                   direction |-> direction,
                   prominenceThreshold |-> <<1, 20>>]
  /\ result = <<>>

CallFindCVPeaks ==
  /\ pc = "ready"
  /\ args.fn = "findCVPeaks"
  /\ result' = findCVPeaks(args.smoothed, args.baseline, args.corrected,
                           args.direction, args.prominenceThreshold)
  /\ pc' = "reported"
  /\ UNCHANGED args

NextOffset == CallFindCVPeaks

SpecOffset == InitOffset /\ [][NextOffset]_vars

PeaksReported == pc = "reported" /\ args.fn = "findCVPeaks"

\* an interior strict local extremum of corrected
StrictExtremumAt(corrected, i) ==
  /\ 0 < i /\ i < Len(corrected) - 1
  /\ \/ RGt(At(corrected, i), At(corrected, i - 1))
        /\ RGt(At(corrected, i), At(corrected, i + 1))
     \/ RLt(At(corrected, i), At(corrected, i - 1))
        /\ RLt(At(corrected, i), At(corrected, i + 1))

\* (y_l - y_r) / (2 (2 y_c - y_l - y_r)) at sample i
FractionalOffset(corrected, i) ==
  RDiv(RSub(At(corrected, i - 1), At(corrected, i + 1)),
       RMul(R(2), RSub(RSub(RMul(R(2), At(corrected, i)), At(corrected, i - 1)),
                       At(corrected, i + 1))))

StrictlyBetween(x, a, b) == RLt(RMin(a, b), x) /\ RLt(x, RMax(a, b))
WithinSpan(x, a, b) == RLe(RMin(a, b), x) /\ RLe(x, RMax(a, b))
Midpoint(a, b) == RDiv(RAdd(a, b), R(2))
PotentialAt(i) == At(args.smoothed, i).potential

\* the neighbour the interpolation moves toward
OffsetSide(i) ==
  IF RGe(FractionalOffset(args.corrected, i), Zero) THEN i + 1 ELSE i - 1

\* the statement of the claim for one reported peak
OffsetBoundedAsStated(peak) ==
  /\ StrictExtremumAt(args.corrected, peak.index)
  /\ RLt(RAbs(FractionalOffset(args.corrected, peak.index)), <<1, 2>>)
  /\ \E k \in {peak.index - 1, peak.index + 1} :
       StrictlyBetween(peak.potential, PotentialAt(peak.index),
                       Midpoint(PotentialAt(peak.index), PotentialAt(k)))
  /\ WithinSpan(peak.potential, PotentialAt(peak.index - 1),
                PotentialAt(peak.index + 1))

\* the apex potential itself for a zero offset or a neighbour at the apex
\* potential, otherwise strictly inside the half step toward that neighbour
OffsetBounded(peak) ==
  LET offset == FractionalOffset(args.corrected, peak.index)
      eC == PotentialAt(peak.index)
      eN == PotentialAt(OffsetSide(peak.index))
  IN  /\ StrictExtremumAt(args.corrected, peak.index)
      /\ RLt(RAbs(offset), <<1, 2>>)
      /\ IF offset = Zero \/ eN = eC THEN peak.potential = eC
         ELSE StrictlyBetween(peak.potential, eC, Midpoint(eC, eN))
      /\ (WithinSpan(eC, PotentialAt(peak.index - 1), PotentialAt(peak.index + 1))
            => WithinSpan(peak.potential, PotentialAt(peak.index - 1),
                          PotentialAt(peak.index + 1)))

(* C30 as stated: for every reported peak the fractional offset is below   *)
(* 1/2 in absolute value, the interpolated potential lies strictly between *)
(* the apex potential and the midpoint toward an adjacent sample, and it   *)
(* stays in the interval spanned by the potentials of the two neighbours.  *)
C30_BoundedOffsetAsStated ==
  PeaksReported => \A k \in 1..Len(result) : OffsetBoundedAsStated(result[k])

(* C30: for every reported peak the fractional offset is below 1/2 in      *)
(* absolute value; the interpolated potential is the apex potential when   *)
(* the offset is zero or the neighbour on the offset's side has the apex   *)
(* potential, and otherwise lies strictly between the apex potential and   *)
(* the midpoint toward that neighbour; it stays in the interval spanned by *)
(* the two neighbours' potentials whenever the apex potential is in it.    *)
C30_BoundedOffset ==
  PeaksReported => \A k \in 1..Len(result) : OffsetBounded(result[k])

\* an asymmetric peak reported a quarter step toward its right neighbour
C30_Witness ==
  /\ PeaksReported
  /\ Len(result) = 1
  /\ result[1].index = 2
  /\ FractionalOffset(args.corrected, 2) = <<1, 4>>
  /\ PotentialAt(2) = R(3) /\ PotentialAt(3) = R(4)
  /\ result[1].potential = <<13, 4>>


(***************************************************************************)
(* Specification of mergePeaks, applied once and then to its own output.   *)
(***************************************************************************)
MaxPeaks == 3
PeakIndices == 0..5
Prominences == {1, 2, 3}
Separations == {2, 3, 5}

\* candidate lists with distinct indices, in every order
CandidateLists ==
  {cs \in SeqsUpTo(PeakIndices \X Prominences, MaxPeaks) :
     \A i \in 1..Len(cs), j \in 1..Len(cs) : i # j => cs[i][1] # cs[j][1]}
CandidateOf(c) == [index |-> c[1], magnitude |-> R(c[2]), prominence |-> R(c[2])]

InitMerge ==
  /\ pc = "ready"
  /\ \E cs \in CandidateLists, sep \in Separations :
       args = [fn |-> "mergePeaks",
               peaks |-> Arr(Len(cs), [i \in 1..Len(cs) |-> CandidateOf(cs[i])]),
               minSeparation |-> sep]
  /\ result = <<>>

CallMergePeaks ==
  /\ pc = "ready"
  /\ args.fn = "mergePeaks"
  /\ result' = <<mergePeaks(args.peaks, args.minSeparation)>>
  /\ pc' = "merged"
  /\ UNCHANGED args

\* mergePeaks on the list the first call returned
CallMergePeaksAgain ==
  /\ pc = "merged"
  /\ args.fn = "mergePeaks"
  /\ result' = Append(result, mergePeaks(result[1], args.minSeparation))
  /\ pc' = "done"
  /\ UNCHANGED args

NextMerge == CallMergePeaks \/ CallMergePeaksAgain

SpecMerge == InitMerge /\ [][NextMerge]_vars

MergedTwice == pc = "done" /\ args.fn = "mergePeaks"
\* the order findCVPeaks passes: prominence descending
ByProminence(peaks) ==
  \A i \in 1..(Len(peaks) - 1) : RGe(peaks[i].prominence, peaks[i + 1].prominence)

MaxPairLen == 9
BumpHeights == {0, 1, 2, 3}
FirstBumpAt == {1, 2}

\* n currents, zero but for a bump of height h1 at index p1 and a bump of
\* height h2 at index n - 2; negative for a reverse scan
BumpScan(n, p1, h1, h2, direction) ==
  LET sgn == IF direction = "forward" THEN 1 ELSE -1
  IN  ScanOf(Arr(n, [i \in 1..n |->
               IF i - 1 = p1 THEN sgn * h1
               ELSE IF i - 1 = n - 2 THEN sgn * h2 ELSE 0]), direction)

InitPair ==
  /\ pc = "ready"
  /\ \E n \in (MaxPairLen - 1)..MaxPairLen,
        fp \in FirstBumpAt, fh1 \in BumpHeights, fh2 \in BumpHeights,
        rp \in FirstBumpAt, rh1 \in BumpHeights, rh2 \in BumpHeights :
       args = [fn |-> "cvPairParams",
               forward |-> BumpScan(n, fp, fh1, fh2, "forward"),
               reverse |-> BumpScan(n, rp, rh1, rh2, "reverse"),
               config |-> Config(FALSE, 5, "rubberband", <<1, 10>>, 1)]
  /\ result = <<>>

CallAnalyzeCycle ==
  /\ pc = "ready"
  /\ args.fn = "cvPairParams"
  /\ result' = analyzeCycle(args.forward, args.reverse, args.config)
  /\ pc' = "analyzed"
  /\ UNCHANGED args

CallCvPairParams ==
  /\ pc = "analyzed"
  /\ args.fn = "cvPairParams"
  /\ result' = [forward |-> result.forward, reverse |-> result.reverse,
                pair |-> cvPairParams(result.forward.peaks, result.reverse.peaks)]
  /\ pc' = "done"
  /\ UNCHANGED args

NextPair == CallAnalyzeCycle \/ CallCvPairParams

SpecPair == InitPair /\ [][NextPair]_vars

PairDone == pc = "done" /\ args.fn = "cvPairParams"
\* the prominence findCVPeaks computed for a peak of a scan result
ProminenceOf(scan, pk) ==
  computeProminence(Corrected(scan.smoothed, scan.baseline), pk.index,
                    pk.type = "oxidation")
\* the peaks of a scan result no other peak of it exceeds in prominence
MostProminent(scan) ==
  {i \in 1..Len(scan.peaks) :
     \A j \in 1..Len(scan.peaks) :
        RGe(ProminenceOf(scan, scan.peaks[i]), ProminenceOf(scan, scan.peaks[j]))}

(* C12: when both directions have a peak, deltaEp is the potential of the  *)
(* most prominent oxidation peak minus that of the most prominent          *)
(* reduction peak, and halfWavePotential is the mean of the two, for any   *)
(* number of peaks per direction.                                          *)
C12_DeltaEpMostProminent ==
  (PairDone /\ Len(result.forward.peaks) > 0 /\ Len(result.reverse.peaks) > 0) =>
     /\ ~result.pair.isNull
     /\ \E i \in MostProminent(result.forward), j \in MostProminent(result.reverse) :
          LET epa == result.forward.peaks[i].potential
              epc == result.reverse.peaks[j].potential
          IN  /\ result.pair.deltaEp = RSub(epa, epc)
              /\ result.pair.halfWavePotential = RDiv(RAdd(epa, epc), R(2))

\* the peaks of a scan result in the order of the direction, all tagged tag
PeaksOrdered(scan, direction, tag) ==
  /\ \A i \in 1..(Len(scan.peaks) - 1) :
        IF direction = "forward"
        THEN RLe(scan.peaks[i].potential, scan.peaks[i + 1].potential)
        ELSE RGe(scan.peaks[i].potential, scan.peaks[i + 1].potential)
  /\ \A i \in 1..Len(scan.peaks) : scan.peaks[i].type = tag

(* C13: the peaks analyzeCVScan returns are sorted by interpolated         *)
(* potential, non-decreasing for a forward scan and non-increasing for a   *)
(* reverse scan, and every peak is tagged "oxidation" for forward and      *)
(* "reduction" for reverse.                                                *)
C13_PeaksSortedByPotential ==
  pc \in {"analyzed", "done"} =>
     /\ PeaksOrdered(result.forward, "forward", "oxidation")
     /\ PeaksOrdered(result.reverse, "reverse", "reduction")

\* both directions with two peaks at different potentials, the forward list
\* not in its order of prominence
C13_Witness ==
  /\ pc = "analyzed"
  /\ Len(result.forward.peaks) = 2
  /\ Len(result.reverse.peaks) = 2
  /\ RLt(result.forward.peaks[1].potential, result.forward.peaks[2].potential)
  /\ RGt(result.reverse.peaks[1].potential, result.reverse.peaks[2].potential)
  /\ RLt(result.forward.peaks[1].height, result.forward.peaks[2].height)

(***************************************************************************)
(* Specification of applySmoothing on short scans.                         *)
(***************************************************************************)
MaxSmoothLen == 5
\* 5 is in the kernel registry, 3 and 7 are not
SmoothingWindows == {3, 5, 7}

InitSmoothing ==
  /\ pc = "ready"
  /\ \E cs \in SeqsUpTo(CurrentVals, MaxSmoothLen), d \in Directions,
        w \in SmoothingWindows :
       /\ Len(cs) > 0
       /\ args = [fn |-> "applySmoothing", data |-> ScanOf(cs, d),
                  config |-> Config(TRUE, w, "linear", <<1, 10>>, 1)]
  /\ result = <<>>

CallApplySmoothing ==
  /\ pc = "ready"
  /\ args.fn = "applySmoothing"
  /\ result' = applySmoothing(args.data, args.config)
  /\ pc' = "done"
  /\ UNCHANGED args

NextSmoothing == CallApplySmoothing

SpecSmoothing == InitSmoothing /\ [][NextSmoothing]_vars

SmoothingDone == pc = "done" /\ args.fn = "applySmoothing"

(* C14: for a non-empty scan and any smoothingWindow applySmoothing does   *)
(* not raise; when the kernel lookup fails it returns the input sequence   *)
(* and its currents unchanged with a warning, and otherwise the output has *)
(* the input's length and the input's potential at every index.            *)
C14_SmoothingFallback ==
  SmoothingDone =>
     /\ ~result.threw
     /\ IF getNormalizedSmoothingKernel(args.config.smoothingWindow).threw
        THEN /\ result.smoothedData = args.data
             /\ result.smoothedCurrent = Currents(args.data)
             /\ \E i \in 1..Len(result.warnings) :
                   result.warnings[i] = "Smoothing failed: No smoothing kernel available"
        ELSE /\ Len(result.smoothedData) = Len(args.data)
             /\ Len(result.smoothedCurrent) = Len(args.data)
             /\ \A i \in 1..Len(args.data) :
                   result.smoothedData[i].potential = args.data[i].potential

\* the lookup failed on a scan with a peak, and the scan came back
C14_Witness ==
  /\ SmoothingDone
  /\ args.config.smoothingWindow = 7
  /\ Currents(args.data) = <<R(0), R(3), R(1)>>
  /\ result.smoothedData = args.data
  /\ Len(result.warnings) > 0

(***************************************************************************)
(* Specification of convolve.                                              *)
(***************************************************************************)
MaxConvLen == 3
NaN == <<0, 0>>
Infinity == <<1, 0>>
ConvVals == {R(0), R(2), R(-3), NaN}
EdgeModes == {"mirror", "constant", "extend"}

\* the registry's smoothing kernels as getNormalizedSmoothingKernel returns them
NormalizedKernels == {getNormalizedSmoothingKernel(w).kernel : w \in SG_WINDOWS}
\* the registry's integer smoothing coefficients
IntegerKernels ==
  {Arr(w, [i \in 1..w |-> R(SmoothingCoefficients(w)[i])]) : w \in SG_WINDOWS}
\* the empty kernel, kernels with a non-finite coefficient, short kernels
OtherKernels ==
  {<<>>, <<NaN>>, <<R(1), Infinity, R(1)>>, <<R(1)>>, <<R(1), R(2)>>}

InitConvolve ==
  /\ pc = "ready"
  /\ \E data \in SeqsUpTo(ConvVals, MaxConvLen),
        kernel \in NormalizedKernels \cup IntegerKernels \cup OtherKernels,
        edgeHandling \in EdgeModes :
       args = [fn |-> "convolve", data |-> data, kernel |-> kernel,
               edgeHandling |-> edgeHandling]
  /\ result = <<>>

CallConvolve ==
  /\ pc = "ready"
  /\ args.fn = "convolve"
  /\ result' = convolve(args.data, args.kernel, args.edgeHandling)
  /\ pc' = "done"
  /\ UNCHANGED args

NextConvolve == CallConvolve

SpecConvolve == InitConvolve /\ [][NextConvolve]_vars

ConvolveDone == pc = "done" /\ args.fn = "convolve"

\* every sample of data is the finite value c
ConstantData(data, c) ==
  /\ Len(data) >= 1
  /\ IsFinite(c)
  /\ \A i \in 1..Len(data) : data[i] = c

\* the indices convolve asks getDataValue for
WindowIndices(n, kernelSize) ==
  {i - (kernelSize \div 2) + j : i \in 0..(n - 1), j \in 0..(kernelSize - 1)}

(* C15: convolving a constant array of any length n >= 1 with a smoothing  *)
(* kernel normalized to sum 1, under any edge mode, returns the constant   *)
(* at each of the n positions; with the integer kernel of sum S every      *)
(* output is c * S; every index asked for is resolved inside [0, n-1].     *)
C15_ConstantPreserved ==
  (ConvolveDone /\ ConstantData(args.data, args.data[1])) =>
     LET c == args.data[1]
         n == Len(args.data)
     IN  /\ args.kernel \in NormalizedKernels =>
              /\ ~result.threw
              /\ result.result = [i \in 1..n |-> c]
         /\ args.kernel \in IntegerKernels =>
              /\ ~result.threw
              /\ result.result = [i \in 1..n |-> RMul(c, RSum(args.kernel, 1))]
         /\ \A index \in WindowIndices(n, Len(args.kernel)) :
              DataIndex(n, index, args.edgeHandling) \in 0..(n - 1)

\* a constant shorter than the 21-point kernel, mirrored, came back
C15_Witness ==
  /\ ConvolveDone
  /\ args.data = <<R(-3), R(-3)>>
  /\ args.kernel = getNormalizedSmoothingKernel(21).kernel
  /\ args.edgeHandling = "mirror"
  /\ result.result = <<R(-3), R(-3)>>

\* data with its non-finite samples replaced by zero
ZeroedData(data) ==
  [i \in 1..Len(data) |-> IF IsFinite(data[i]) THEN data[i] ELSE Zero]

HasWarning(w) == \E i \in 1..Len(result.warnings) : result.warnings[i] = w

(* C16: convolve raises exactly when the data is empty, the kernel is      *)
(* empty or a kernel coefficient is non-finite; a non-finite sample does   *)
(* not raise, contributes zero to every window and adds a warning; a       *)
(* kernel longer than the data adds a warning and the result still has     *)
(* the data's length.                                                      *)
C16_ConvolveErrorPolicy ==
  ConvolveDone =>
     /\ result.threw <=>
          \/ Len(args.data) = 0
          \/ Len(args.kernel) = 0
          \/ \E j \in 1..Len(args.kernel) : ~IsFinite(args.kernel[j])
     /\ ~result.threw =>
          /\ Len(result.result) = Len(args.data)
          /\ result.result =
               convolve(ZeroedData(args.data), args.kernel, args.edgeHandling).result
          /\ (\E i \in 1..Len(args.data) : ~IsFinite(args.data[i])) =>
               HasWarning("Data contains NaN or infinite values")
          /\ Len(args.kernel) > Len(args.data) =>
               HasWarning("Kernel is larger than data array, results may be unreliable")

\* a non-finite sample under a kernel longer than the data
C16_Witness ==
  /\ ConvolveDone
  /\ args.data = <<R(2), NaN, R(-3)>>
  /\ Len(args.kernel) = 5
  /\ ~result.threw
  /\ Len(result.warnings) = 2
  /\ Len(result.result) = 3

(***************************************************************************)
(* Specification of the kernel lookups.                                    *)
(***************************************************************************)
MaxWindow == 60
KernelLookups == {"getNormalizedSmoothingKernel", "getDerivativeKernel"}

InitKernels ==
  /\ pc = "ready"
  /\ \E fn \in KernelLookups, windowSize \in 0..MaxWindow :
       args = [fn |-> fn, windowSize |-> windowSize]
  /\ result = <<>>

CallGetNormalizedSmoothingKernel ==
  /\ pc = "ready"
  /\ args.fn = "getNormalizedSmoothingKernel"
  /\ result' = getNormalizedSmoothingKernel(args.windowSize)
  /\ pc' = "done"
  /\ UNCHANGED args

CallGetDerivativeKernel ==
  /\ pc = "ready"
  /\ args.fn = "getDerivativeKernel"
  /\ result' = getDerivativeKernel(args.windowSize)
  /\ pc' = "done"
  /\ UNCHANGED args

NextKernels == CallGetNormalizedSmoothingKernel \/ CallGetDerivativeKernel

SpecKernels == InitKernels /\ [][NextKernels]_vars

KernelDone(fn) == pc = "done" /\ args.fn = fn /\ args.windowSize \in {5, 9, 11, 15, 21}

(* C17: for each window size 5, 9, 11, 15, 21 the integer smoothing        *)
(* coefficients have a non-zero sum S, getNormalizedSmoothingKernel        *)
(* returns coefficient / S for each entry and the returned coefficients    *)
(* sum to 1; the derivative kernel is returned unnormalized and is         *)
(* antisymmetric about its centre, which is 0.                             *)
C17_KernelNormalization ==
  LET w == args.windowSize
      m == (w \div 2) + 1
  IN  /\ KernelDone("getNormalizedSmoothingKernel") =>
           LET S == IntSum(SmoothingCoefficients(w), 1)
           IN  /\ ~result.threw
               /\ S # 0
               /\ Len(result.kernel) = w
               /\ \A i \in 1..w :
                     RMul(result.kernel[i], R(S)) = R(SmoothingCoefficients(w)[i])
               /\ RSum(result.kernel, 1) = One
      /\ KernelDone("getDerivativeKernel") =>
           /\ ~result.threw
           /\ Len(result.kernel) = w
           /\ \A i \in 1..w : result.kernel[i] = R(DerivativeCoefficients(w)[i])
           /\ result.kernel[m] = Zero
           /\ \A j \in 0..(m - 1) : result.kernel[m + j] = RNeg(result.kernel[m - j])

\* the 21-point smoothing kernel: -171 / 3059 = -9 / 161 at its first entry
C17_Witness ==
  /\ KernelDone("getNormalizedSmoothingKernel")
  /\ args.windowSize = 21
  /\ result.kernel[1] = <<-9, 161>>
  /\ RSum(result.kernel, 1) = One

(***************************************************************************)
(* Specification of trapz and simpsons on uniformly spaced points.         *)
(***************************************************************************)
MaxPoints == 11
Ordinates == {-2, 0, 1, 3}
Steps == {<<1, 2>>, <<1, 1>>, <<2, 1>>, <<-1, 1>>}
Origins == {-1, 0}
OrdinateSlopes == {0, 1}
Integrators == {"trapz", "simpsons"}

\* n points x0, x0 + h, ... with y = c + s * i at the i-th of them
UniformPoints(n, x0, h, c, s) ==
  Arr(n, [i \in 1..n |-> [x |-> RAdd(R(x0), RMul(R(i - 1), h)), y |-> R(c + s * (i - 1))]])

InitIntegrate ==
  /\ pc = "ready"
  /\ \E fn \in Integrators, n \in 0..MaxPoints, x0 \in Origins, h \in Steps,
        c \in Ordinates, s \in OrdinateSlopes :
       args = [fn |-> fn, points |-> UniformPoints(n, x0, h, c, s), slope |-> s]
  /\ result = <<>>

CallTrapz ==
  /\ pc = "ready"
  /\ args.fn = "trapz"
  /\ result' = trapz(args.points)
  /\ pc' = "done"
  /\ UNCHANGED args

CallSimpsons ==
  /\ pc = "ready"
  /\ args.fn = "simpsons"
  /\ result' = simpsons(args.points)
  /\ pc' = "done"
  /\ UNCHANGED args

NextIntegrate == CallTrapz \/ CallSimpsons

SpecIntegrate == InitIntegrate /\ [][NextIntegrate]_vars

IntegrateDone == pc = "done" /\ args.fn \in Integrators

(* C18: for uniformly spaced x and constant y = c, trapz and simpsons      *)
(* both return c * (x_last - x_first) for every point count >= 2.          *)
C18_ConstantIntegral ==
  (IntegrateDone /\ Len(args.points) >= 2 /\ args.slope = 0) =>
     LET n == Len(args.points)
     IN  result.area =
           RMul(args.points[1].y, RSub(args.points[n].x, args.points[1].x))

\* y = 1 on the eleven points 0, 1, ..., 10 integrates to 10 by the 1-4-1 rule
C18_Witness ==
  /\ IntegrateDone
  /\ args.fn = "simpsons"
  /\ Len(args.points) = 11
  /\ args.slope = 0
  /\ args.points[1] = [x |-> R(0), y |-> R(1)]
  /\ args.points[11].x = R(10)
  /\ result.area = R(10)

(* C26: on uniformly spaced points with y constant or linear in x, for     *)
(* every point count >= 4 the half-resolution area of trapz's error        *)
(* estimate equals the full-resolution area and the reported error is 0;   *)
(* for fewer than 4 points the error is null.                              *)
C26_RichardsonError ==
  (IntegrateDone /\ args.fn = "trapz") =>
     IF Len(args.points) >= 4
     THEN /\ result.hasError
          /\ TrapzArea(CoarsePoints(args.points), 1) = result.area
          /\ result.error = Zero
     ELSE ~result.hasError

\* the same statement for the odd point counts, where the coarse grid ends on
\* the last point
C26_OddCounts ==
  (IntegrateDone /\ args.fn = "trapz" /\ Len(args.points) % 2 = 1) =>
     C26_RichardsonError

\* for an even count the coarse grid stops one step short: the error is the
\* last interval's area over 3
C26_EvenCounts ==
  (IntegrateDone /\ args.fn = "trapz" /\ Len(args.points) >= 4
     /\ Len(args.points) % 2 = 0) =>
     LET n == Len(args.points)
         last == RDiv(RMul(RSub(args.points[n].x, args.points[n - 1].x),
                           RAdd(args.points[n - 1].y, args.points[n].y)), R(2))
     IN  result.error = RDiv(RAbs(last), R(3))

\* the points of a reported peak's integration range
PeakPoints(pk) ==
  buildIntegrationPoints(result.smoothed, result.baseline, pk.startIndex,
                         pk.endIndex, HasTime(result.smoothed))

MaxTripleLen == 11
SecondBumpAt == {5, 6}

\* n currents, zero but for bumps of heights h1, h2, h3 at the indices p1,
\* p2 and n - 2; negative for a reverse scan
TripleScan(n, p1, p2, h1, h2, h3, direction) ==
  LET sgn == IF direction = "forward" THEN 1 ELSE -1
  IN  ScanOf(Arr(n, [i \in 1..n |->
               IF i - 1 = p1 THEN sgn * h1
               ELSE IF i - 1 = p2 THEN sgn * h2
               ELSE IF i - 1 = n - 2 THEN sgn * h3 ELSE 0]), direction)

InitTriple ==
  /\ pc = "ready"
  /\ \E n \in (MaxTripleLen - 1)..MaxTripleLen, p1 \in FirstBumpAt,
        p2 \in SecondBumpAt, h1 \in BumpHeights, h2 \in BumpHeights,
        h3 \in BumpHeights, d \in Directions :
       args = [fn |-> "analyzeCVScan",
               scanData |-> TripleScan(n, p1, p2, h1, h2, h3, d),
               config |-> Config(FALSE, 5, "rubberband", <<1, 10>>, 1),
               scanDirection |-> d]
  /\ result = <<>>

SpecTriple == InitTriple /\ [][Next]_vars

\* the corrected signal of the result, and the candidates findCVPeaks keeps
\* after its prominence filter, each with its prominence
ResultCorrected == Corrected(result.smoothed, result.baseline)
ResultIsOxidation == args.scanDirection = "forward"
ResultCandidates == Candidates(ResultCorrected, 1, ResultIsOxidation)
CandidateProminence(index) == computeProminence(ResultCorrected, index, ResultIsOxidation)
MaxMagnitude ==
  RMaxOf([i \in 1..Len(ResultCandidates) |-> ResultCandidates[i].magnitude], 1)
FilteredIndices ==
  {ResultCandidates[i].index : i \in
     {k \in 1..Len(ResultCandidates) :
        RGe(CandidateProminence(ResultCandidates[k].index),
            RMul(MaxMagnitude, args.config.peakProminenceThreshold))}}
ReportedIndices == {result.peaks[k].index : k \in 1..Len(result.peaks)}
ResultMinSeparation == MinSeparation(Len(args.scanData))

\* any two distinct reported peaks are at least minSeparation apart
PeaksSeparated ==
  \A i \in ReportedIndices, j \in ReportedIndices :
     i # j => Abs(i - j) >= ResultMinSeparation

(* C21, as stated: reported peaks are at least minSeparation apart, and of *)
(* any two candidates closer than that of which one is kept, the kept one  *)
(* has the higher (or an equal) prominence.                                *)
C21_KeptIsHighestOfGroup ==
  AnalyzeDone =>
     /\ PeaksSeparated
     /\ \A i \in ReportedIndices, j \in FilteredIndices \ ReportedIndices :
          Abs(i - j) < ResultMinSeparation =>
             RGe(CandidateProminence(i), CandidateProminence(j))

(* C21, amended: reported peaks are at least minSeparation apart, and every *)
(* candidate that is not reported lies closer than minSeparation to a       *)
(* reported peak of at least its prominence.                                *)
C21_AbsorbedByHigher ==
  AnalyzeDone =>
     /\ PeaksSeparated
     /\ ReportedIndices \subseteq FilteredIndices
     /\ \A j \in FilteredIndices \ ReportedIndices :
          \E i \in ReportedIndices :
             /\ Abs(i - j) < ResultMinSeparation
             /\ RGe(CandidateProminence(i), CandidateProminence(j))

\* three candidates, the middle one absorbed by the first, the last kept
C21_Witness ==
  /\ AnalyzeDone
  /\ Cardinality(FilteredIndices) = 3
  /\ Cardinality(ReportedIndices) = 2
  /\ \E j \in FilteredIndices \ ReportedIndices :
        \A i \in ReportedIndices : i < j => Abs(i - j) < ResultMinSeparation

\* smoothed[i].current - baseline[i].current of the result, i from 0
CorrectedAt(i) ==
  RSub(At(result.smoothed, i).current, At(result.baseline, i).current)

\* a strict local extremum of the peak's sign at the interior index i
SoundApex(i) ==
  /\ 1 <= i /\ i <= Len(result.smoothed) - 2
  /\ IF ResultIsOxidation
     THEN /\ RGt(CorrectedAt(i), CorrectedAt(i - 1))
          /\ RGt(CorrectedAt(i), CorrectedAt(i + 1))
          /\ RGt(CorrectedAt(i), Zero)
     ELSE /\ RLt(CorrectedAt(i), CorrectedAt(i - 1))
          /\ RLt(CorrectedAt(i), CorrectedAt(i + 1))
          /\ RLt(CorrectedAt(i), Zero)

\* the largest |corrected| over the sound apexes
LargestSoundMagnitude ==
  LET apexes == {i \in 1..(Len(result.smoothed) - 2) : SoundApex(i)}
  IN  CHOOSE m \in {RAbs(CorrectedAt(i)) : i \in apexes} :
        \A i \in apexes : RGe(m, RAbs(CorrectedAt(i)))

(* C22: every reported peak has an apex index i in 1..n-2 where corrected  *)
(* is a strict local maximum > 0 (forward) or a strict local minimum < 0   *)
(* (reverse), a prominence >= threshold * the largest candidate magnitude  *)
(* and height |smoothed[i].current - baseline[i].current|; a scan of fewer *)
(* than 5 samples has no peak.                                             *)
C22_ReportedPeaksSound ==
  AnalyzeDone =>
     /\ Len(args.scanData) < 5 => Len(result.peaks) = 0
     /\ \A k \in 1..Len(result.peaks) :
          LET pk == result.peaks[k]
          IN  /\ SoundApex(pk.index)
              /\ RGe(CandidateProminence(pk.index),
                     RMul(LargestSoundMagnitude, args.config.peakProminenceThreshold))
              /\ pk.height = RAbs(CorrectedAt(pk.index))

\* a reverse scan with a reported peak beside an apex that is not reported
C22_Witness ==
  /\ AnalyzeDone
  /\ ~ResultIsOxidation
  /\ Len(result.peaks) = 1
  /\ \E i \in 1..(Len(result.smoothed) - 2) :
        SoundApex(i) /\ i # result.peaks[1].index

\* the corrected value at i has the sign of the direction's peaks
PeakSigned(i) ==
  IF ResultIsOxidation THEN RGt(CorrectedAt(i), Zero) ELSE RLt(CorrectedAt(i), Zero)

(* C23: for every reported peak 0 <= startIndex < index < endIndex <= n-1, *)
(* every corrected value strictly between the two boundaries has the       *)
(* peak's sign, each boundary is the data edge or the first index on its   *)
(* side of the apex where corrected is <= 0 (oxidation) or >= 0            *)
(* (reduction), and startPotential and endPotential are the smoothed       *)
(* potentials at the boundaries.                                           *)
C23_PeakBoundaries ==
  AnalyzeDone =>
     \A k \in 1..Len(result.peaks) :
        LET pk == result.peaks[k]
            n == Len(result.smoothed)
        IN  /\ 0 <= pk.startIndex /\ pk.startIndex < pk.index
            /\ pk.index < pk.endIndex /\ pk.endIndex <= n - 1
            /\ \A i \in (pk.startIndex + 1)..(pk.endIndex - 1) : PeakSigned(i)
            /\ pk.startIndex = 0 \/ ~PeakSigned(pk.startIndex)
            /\ pk.endIndex = n - 1 \/ ~PeakSigned(pk.endIndex)
            /\ pk.startPotential = At(result.smoothed, pk.startIndex).potential
            /\ pk.endPotential = At(result.smoothed, pk.endIndex).potential

\* a peak whose left boundary is the data edge, still of the peak's sign,
\* and whose right boundary is an interior return to the baseline
C23_Witness ==
  /\ AnalyzeDone
  /\ \E k \in 1..Len(result.peaks) :
        /\ result.peaks[k].startIndex = 0
        /\ PeakSigned(0)
        /\ result.peaks[k].endIndex < Len(result.smoothed) - 1
        /\ result.peaks[k].endIndex > result.peaks[k].index + 1

(***************************************************************************)
(* Specification of aslsBaseline, one action per loop iteration.           *)
(***************************************************************************)
\* 20 is the count computeBaseline passes; 1 and 2 cut the loop short
AslsIterationCaps == {1, 2, ASLS_MAX_ITERATIONS}

InitAsls ==
  /\ pc = "ready"
  /\ \E cs \in SeqsUpTo(CurrentVals, ASLS_MIN_LEN), d \in Directions,
        cap \in AslsIterationCaps :
       args = [fn |-> "aslsBaseline", data |-> ScanOf(cs, d), direction |-> d,
               lambda |-> One, p |-> <<1, 4>>, maxIterations |-> cap,
               tolerance |-> Tolerance]
  /\ result = <<>>

\* entry: the early return for n < 5, otherwise w = 1 and z = y
AslsEnter ==
  /\ pc = "ready"
  /\ args.fn = "aslsBaseline"
  /\ IF Len(args.data) < ASLS_MIN_LEN
     THEN /\ pc' = "done"
          /\ result' = [baseline |-> CopyPoints(args.data), solves |-> 0]
     ELSE /\ pc' = "loop"
          /\ result' = [iter |-> 0, solves |-> 0,
                        w |-> Arr(Len(args.data), [i \in 1..Len(args.data) |-> One]),
                        z |-> Currents(args.data), maxChange |-> Zero]
  /\ UNCHANGED args

\* one pass of the loop body: solve, update the weights, test the change
AslsIterate ==
  /\ pc = "loop"
  /\ result.iter < args.maxIterations
  /\ \E z1 \in {solvePentadiagonal(Currents(args.data), result.w, args.lambda,
                                     Len(args.data))} :
       LET y == Currents(args.data)
           pAbove == IF args.direction = "forward" THEN args.p ELSE RSub(One, args.p)
           pBelow == RSub(One, pAbove)
           w1 == NewWeights(y, z1, pAbove, pBelow)
           change == MaxChange(w1, result.w, 1)
       IN  /\ result' = [iter |-> result.iter + 1, solves |-> result.solves + 1,
                         w |-> w1, z |-> z1, maxChange |-> change]
           /\ pc' = IF RLt(change, args.tolerance) THEN "break" ELSE "loop"
  /\ UNCHANGED args

\* the loop left by its condition or by the break; the baseline is built
AslsReturn ==
  /\ \/ pc = "loop" /\ result.iter >= args.maxIterations
     \/ pc = "break"
  /\ result' = [baseline |-> Arr(Len(args.data), [i \in 1..Len(args.data) |->
                                Point(args.data[i].potential, result.z[i])]),
                solves |-> result.solves]
  /\ pc' = "done"
  /\ UNCHANGED args

NextAsls == AslsEnter \/ AslsIterate \/ AslsReturn

SpecAsls == InitAsls /\ [][NextAsls]_vars

\* the weight the claim gives sample i after a solve
ClaimedWeight(i) ==
  LET above == RGt(args.data[i].current, result.z[i])
  IN  IF args.direction = "forward"
      THEN (IF above THEN args.p ELSE RSub(One, args.p))
      ELSE (IF above THEN RSub(One, args.p) ELSE args.p)

(* C24: for n >= 5 aslsBaseline performs at most maxIterations solves and  *)
(* stops after the first iteration whose largest weight change is below    *)
(* tolerance; after every iteration each weight is p where y > z and 1 - p *)
(* otherwise for a forward scan, and the reverse of that for a reverse     *)
(* scan; for n < 5 no solve is performed and the data is returned          *)
(* unchanged.                                                              *)
C24_AslsIteration ==
  /\ (pc \in {"loop", "break"}) =>
        /\ Len(args.data) >= 5
        /\ result.solves = result.iter
        /\ result.solves <= args.maxIterations
        /\ result.iter >= 1 =>
              /\ \A i \in 1..Len(args.data) : result.w[i] = ClaimedWeight(i)
              /\ (pc = "break") <=> RLt(result.maxChange, args.tolerance)
  /\ (pc = "done" /\ args.fn = "aslsBaseline") =>
        /\ result.solves <= args.maxIterations
        /\ result.baseline =
             aslsBaseline(args.data, args.direction, args.lambda, args.p,
                          args.maxIterations, args.tolerance)
        /\ Len(args.data) < 5 =>
              /\ result.solves = 0
              /\ Len(result.baseline) = Len(args.data)
              /\ \A i \in 1..Len(args.data) :
                    /\ result.baseline[i].potential = args.data[i].potential
                    /\ result.baseline[i].current = args.data[i].current
        /\ Len(args.data) >= 5 =>
              result.solves = aslsRun(args.data, args.direction, args.lambda, args.p,
                                      args.maxIterations, args.tolerance).solves

\* the loop broke on an unchanged weight vector after more than one solve,
\* with weights of both kinds
C24_Witness ==
  /\ pc = "break"
  /\ result.iter >= 2
  /\ result.iter < args.maxIterations
  /\ \E i \in 1..Len(args.data), j \in 1..Len(args.data) :
        result.w[i] = args.p /\ result.w[j] = RSub(One, args.p)

(***************************************************************************)
(* Specification of solvePentadiagonal, one action per phase: the bands,   *)
(* the factorisation, the two substitutions.                               *)
(***************************************************************************)
SolveLens == {5, 6, 7}
SolveLambdas == {<<1, 2>>, One, R(2)}
SolveShapes == {"ramp", "bump"}

\* the weights drawn for a length and a lambda: the asymmetric pair p, 1 - p
\* and the initial 1 for the shortest system, two values for the longer ones
SolveWeights(n, lambda) ==
  IF n = 5 /\ lambda = One THEN {<<1, 4>>, <<3, 4>>, One}
  ELSE IF n = 7 /\ lambda = R(2) THEN {One, R(2)}
  ELSE {<<1, 2>>, One}

\* the currents solved for: 0, 1, 2, ... or a single 3 at index 2
SolveData(n, shape) ==
  Arr(n, [i \in 1..n |-> IF shape = "ramp" THEN R(i - 1)
                          ELSE IF i = 3 THEN R(3) ELSE Zero])

InitSolve ==
  /\ pc = "ready"
  /\ \E n \in SolveLens, lambda \in SolveLambdas, shape \in SolveShapes :
       \E w \in [1..n -> SolveWeights(n, lambda)] :
          args = [fn |-> "solvePentadiagonal", y |-> SolveData(n, shape),
                  w |-> Arr(n, w), lambda |-> lambda, n |-> n]
  /\ result = <<>>

\* the three assembly loops
SolveBuildBands ==
  /\ pc = "ready"
  /\ args.fn = "solvePentadiagonal"
  /\ result' = [a |-> BandA(args.w, args.lambda, args.n),
                e |-> BandE(args.lambda, args.n),
                f |-> BandF(args.lambda, args.n)]
  /\ pc' = "banded"
  /\ UNCHANGED args

\* the column loop of the factorisation
SolveFactorise ==
  /\ pc = "banded"
  /\ result' = [a |-> result.a, e |-> result.e, f |-> result.f,
                L |-> Factorise(0, args.n, result.a, result.e, result.f, <<>>, <<>>)]
  /\ pc' = "factorised"
  /\ UNCHANGED args

\* forward and back substitution
SolveSubstitute ==
  /\ pc = "factorised"
  /\ result' = [a |-> result.a, e |-> result.e, f |-> result.f, L |-> result.L,
                z |-> BackSubst(args.n - 1, args.n, result.L,
                                ForwardSubst(0, args.n, result.L, args.w, args.y, <<>>),
                                <<>>)]
  /\ pc' = "solved"
  /\ UNCHANGED args

NextSolve == SolveBuildBands \/ SolveFactorise \/ SolveSubstitute

SpecSolve == InitSolve /\ [][NextSolve]_vars

\* entry (r, c) of the (n-2) x n second-difference operator, from 0
D2(r, c) == IF c = r \/ c = r + 2 THEN 1 ELSE IF c = r + 1 THEN -2 ELSE 0

RECURSIVE D2tD2Sum(_, _, _, _)
D2tD2Sum(i, j, r, n) ==
  IF r > n - 3 THEN 0 ELSE D2(r, i) * D2(r, j) + D2tD2Sum(i, j, r + 1, n)

\* entry (i, j) of diag(w) + lambda D2'D2
SystemEntry(i, j) ==
  RAdd(IF i = j THEN At(args.w, i) ELSE Zero,
       RMul(args.lambda, R(D2tD2Sum(i, j, 0, args.n))))

\* the literal band values of the claim, without lambda
DiagonalPattern(i, n) ==
  IF i \in {0, n - 1} THEN 1 ELSE IF i \in {1, n - 2} THEN 5 ELSE 6
FirstOffPattern(i, n) == IF i \in {0, n - 2} THEN -2 ELSE -4

\* entry (i, j), i >= j, of L L' from the stored factor: L[j][j]^2 = a2[j],
\* L[j+1][j] L[j][j] = eN[j], L[j+2][j] L[j][j] = fN[j]
FactorProduct(i, j) ==
  LET L == result.L
      sq(x, k) == RDiv(RMul(x, x), At(L.a2, k))
  IN  CASE i = j ->
             RAdd(At(L.a2, j),
                  RAdd(IF j >= 1 THEN sq(At(L.eN, j - 1), j - 1) ELSE Zero,
                       IF j >= 2 THEN sq(At(L.fN, j - 2), j - 2) ELSE Zero))
        [] i = j + 1 ->
             RAdd(At(L.eN, j),
                  IF j >= 1
                  THEN RDiv(RMul(At(L.fN, j - 1), At(L.eN, j - 1)), At(L.a2, j - 1))
                  ELSE Zero)
        [] i = j + 2 -> At(L.fN, j)
        [] OTHER -> Zero

\* no column's pivot was replaced by the floor
NoPivotClamped == \A j \in 0..(args.n - 1) : At(result.L.a2, j) # PivotFloor

ScanPoint(e, c, s) ==
  [potential |-> e, current |-> c, hasTime |-> FALSE, time |-> Zero, scan |-> s]

HasScan(d) == "scan" \in DOMAIN d

Potentials(data) == Arr(Len(data), [i \in 1..Len(data) |-> data[i].potential])

\* Array.prototype.slice(from, to) for 0 <= from
Slice(arr, from, to) == SubSeq(arr, from + 1, Min(to, Len(arr)))

\* Array.prototype.indexOf: the first index holding v
IndexOf(vals, v) == CHOOSE i \in 0..(Len(vals) - 1) :
                      /\ At(vals, i) = v
                      /\ \A j \in 0..(i - 1) : At(vals, j) # v

\* Math.max(...vals) and Math.min(...vals) of a non-empty array
MaxOf(vals) == CHOOSE v \in {vals[k] : k \in 1..Len(vals)} :
                 \A k \in 1..Len(vals) : RLe(vals[k], v)
MinOf(vals) == CHOOSE v \in {vals[k] : k \in 1..Len(vals)} :
                 \A k \in 1..Len(vals) : RGe(vals[k], v)

splitScanAtExtrema(scanData) ==
  IF Len(scanData) = 0
  THEN [data |-> [forward |-> <<>>, reverse |-> <<>>],
        switchingPotentials |-> [forward |-> <<-1, 0>>, reverse |-> Infinity]]
  ELSE
  LET potentials == Potentials(scanData)
      maxPot == MaxOf(potentials)
      minPot == MinOf(potentials)
      maxIdx == IndexOf(potentials, maxPot)
      minIdx == IndexOf(potentials, minPot)
      lo == Min(maxIdx, minIdx)
      hi == Max(maxIdx, minIdx)
      seg1 == Slice(scanData, lo, hi + 1)
      seg2Exists == lo > 0 \/ hi < Len(scanData) - 1
      seg1GoesUp == Len(seg1) >= 2 /\ RGt(seg1[Len(seg1)].potential, seg1[1].potential)
      tail == Slice(scanData, hi, Len(scanData))
      head == Slice(scanData, 0, lo + 1)
      wrapped == IF seg2Exists THEN tail \o Tail(head) ELSE <<>>
  IN  [data |-> IF seg1GoesUp THEN [forward |-> seg1, reverse |-> wrapped]
                ELSE [forward |-> wrapped, reverse |-> seg1],
       switchingPotentials |-> [forward |-> maxPot, reverse |-> minPot]]

Cycle(word, number, split) ==
  [label |-> <<word, number>>, data |-> split.data,
   switchingPotentials |-> split.switchingPotentials]

ScanNumberOf(point) == IF HasScan(point) THEN point.scan ELSE 1

\* the scan numbers present, ascending
RECURSIVE SortedNumbers(_)
SortedNumbers(S) ==
  IF S = {} THEN <<>>
  ELSE LET m == CHOOSE x \in S : \A y \in S : x <= y
       IN  <<m>> \o SortedNumbers(S \ {m})

splitByScanColumn(data, warnings) ==
  LET scanNumbers == SortedNumbers({ScanNumberOf(data[i]) : i \in 1..Len(data)})
      group(num) == SelectSeq(data, LAMBDA point : ScanNumberOf(point) = num)
      cycles == Arr(Len(scanNumbers), [k \in 1..Len(scanNumbers) |->
                  Cycle("Scan", scanNumbers[k], splitScanAtExtrema(group(scanNumbers[k])))])
  IN  [cycles |-> cycles, selectedIndex |-> Len(cycles) - 1,
       warnings |-> Append(warnings, "Cycle split using instrument Scan column")]

\* the potential the next switching point is measured from
SwitchReference(switches, potentials) ==
  IF Len(switches) > 0 THEN switches[Len(switches)].potential ELSE At(potentials, 0)

\* one pass of the loop body, for sample st.i
SwitchStep(potentials, minSwing, st) ==
  LET i == st.i
      diff == RSub(At(potentials, i), st.lastExtremumVal)
      pushed == IF RGt(RAbs(RSub(st.lastExtremumVal,
                                 SwitchReference(st.switches, potentials))), minSwing)
                THEN Append(st.switches, [index |-> st.lastExtremumIdx,
                                          potential |-> st.lastExtremumVal])
                ELSE st.switches
      fromStart == RSub(st.lastExtremumVal, At(potentials, 0))
      reversal(direction) ==
        [i |-> i + 1, switches |-> pushed, lastExtremumIdx |-> i,
         lastExtremumVal |-> At(potentials, i), direction |-> direction]
  IN  IF st.direction = 0
      THEN [st EXCEPT !.i = i + 1,
                      !.direction = IF RGt(RAbs(diff), RMul(minSwing, <<1, 2>>))
                                    THEN (IF RGt(diff, Zero) THEN 1 ELSE -1) ELSE 0]
      ELSE IF /\ st.direction = 1 /\ RLt(diff, Zero)
              /\ RGt(fromStart, RMul(minSwing, <<3, 10>>))
      THEN reversal(-1)
      ELSE IF /\ st.direction = -1 /\ RGt(diff, Zero)
              /\ RGt(RNeg(fromStart), RMul(minSwing, <<3, 10>>))
      THEN reversal(1)
      ELSE IF \/ st.direction = 1 /\ RGt(At(potentials, i), st.lastExtremumVal)
              \/ st.direction = -1 /\ RLt(At(potentials, i), st.lastExtremumVal)
      THEN [st EXCEPT !.i = i + 1, !.lastExtremumIdx = i,
                      !.lastExtremumVal = At(potentials, i)]
      ELSE [st EXCEPT !.i = i + 1]

\* the loop over the samples from st.i on
RECURSIVE FindSwitches(_, _, _)
FindSwitches(potentials, minSwing, st) ==
  IF st.i >= Len(potentials) THEN st.switches
  ELSE FindSwitches(potentials, minSwing, SwitchStep(potentials, minSwing, st))

\* the cycles built from the boundary pairs seg, seg + 2, ...
RECURSIVE BuildCycles(_, _, _, _)
BuildCycles(data, boundaries, seg, cycles) ==
  IF seg >= Len(boundaries) - 2 THEN cycles
  ELSE LET start == At(boundaries, seg)
           mid == At(boundaries, seg + 1)
           end == At(boundaries, seg + 2)
           segA == Slice(data, start, mid + 1)
           segB == Slice(data, mid, end + 1)
           aGoesUp == RGt(segA[Len(segA)].potential, segA[1].potential)
           forward == IF aGoesUp THEN segA ELSE segB
           reverse == IF aGoesUp THEN segB ELSE segA
           maxPot == RMax(forward[Len(forward)].potential, forward[1].potential)
           minPot == RMin(reverse[Len(reverse)].potential, reverse[1].potential)
       IN  IF Len(segA) < 5 \/ Len(segB) < 5
           THEN BuildCycles(data, boundaries, seg + 2, cycles)
           ELSE BuildCycles(data, boundaries, seg + 2,
                  Append(cycles,
                    Cycle("Cycle", Len(cycles) + 1,
                          [data |-> [forward |-> forward, reverse |-> reverse],
                           switchingPotentials |->
                             [forward |-> maxPot, reverse |-> minPot]])))

SingleCycle(data, warnings) ==
  [cycles |-> <<Cycle("Cycle", 1, splitScanAtExtrema(data))>>, selectedIndex |-> 0,
   warnings |-> warnings]

splitByHeuristic(data, warnings) ==
  IF Len(data) < 20
  THEN SingleCycle(data, Append(warnings, "Dataset too small for multi-cycle detection"))
  ELSE
  LET potentials == Potentials(data)
      totalRange == RSub(MaxOf(potentials), MinOf(potentials))
      minSwing == RMul(totalRange, <<1, 10>>)
      switches == FindSwitches(potentials, minSwing,
                    [i |-> 1, switches |-> <<>>, lastExtremumIdx |-> 0,
                     lastExtremumVal |-> At(potentials, 0), direction |-> 0])
      boundaries == <<0>> \o Arr(Len(switches), [k \in 1..Len(switches) |->
                                    switches[k].index]) \o <<Len(data) - 1>>
      cycles == BuildCycles(data, boundaries, 0, <<>>)
  IN  IF Len(switches) = 0
      THEN SingleCycle(data, Append(warnings,
             "No switching points detected, treating all data as one cycle"))
      ELSE IF Len(cycles) = 0
      THEN SingleCycle(data, Append(warnings,
             "Could not build complete cycles from switching points"))
      ELSE [cycles |-> cycles, selectedIndex |-> Len(cycles) - 1, warnings |-> warnings]

splitCycles(data) ==
  LET warnings == IF Len(data) < 10
                  THEN <<"Dataset is very small, cycle detection may be unreliable">>
                  ELSE <<>>
  IN  IF \E i \in 1..Len(data) : HasScan(data[i])
      THEN splitByScanColumn(data, warnings)
      ELSE splitByHeuristic(data, warnings)

(***************************************************************************)
(* Specification of splitCycles on noise-free triangular sweeps without a  *)
(* Scan column.                                                            *)
(***************************************************************************)
MaxHalf == 12        \* most steps drawn between two switching potentials
MaxCycles == 3       \* most full cycles drawn in a sweep
SweepStarts == {"lower", "upper"}
SweepLows == {-1, 0}
SweepSteps == {<<1, 2>>, One, R(2)}

\* the triangle wave 0, 1, ..., half, half - 1, ..., 0, 1, ... at sample i
TriangleAt(i, half) ==
  LET phase == i % (2 * half) IN IF phase <= half THEN phase ELSE 2 * half - phase

\* a sweep of whole cycles between lo and lo + half * step, one sample per step
TriangleSweep(start, cycles, half, lo, step) ==
  Arr(2 * half * cycles + 1, [k \in 1..(2 * half * cycles + 1) |->
    Point(RAdd(R(lo), RMul(step, R(IF start = "lower" THEN TriangleAt(k - 1, half)
                                   ELSE half - TriangleAt(k - 1, half)))),
          Zero)])

InitSplit ==
  /\ pc = "ready"
  /\ \E start \in SweepStarts, cycles \in 1..MaxCycles, half \in 5..MaxHalf,
        lo \in SweepLows, step \in SweepSteps :
       /\ 2 * half * cycles + 1 >= 20
       /\ args = [fn |-> "splitCycles", data |-> TriangleSweep(start, cycles, half, lo, step),
                  fullCycles |-> cycles, start |-> start]
  /\ result = <<>>

CallSplitCycles ==
  /\ pc = "ready"
  /\ args.fn = "splitCycles"
  /\ result' = splitCycles(args.data)
  /\ pc' = "done"
  /\ UNCHANGED args

NextSplit == CallSplitCycles

SpecSplit == InitSplit /\ [][NextSplit]_vars

SplitDone == pc = "done" /\ args.fn = "splitCycles"

NonDecreasing(points) ==
  \A i \in 1..(Len(points) - 1) : RLe(points[i].potential, points[i + 1].potential)
NonIncreasing(points) ==
  \A i \in 1..(Len(points) - 1) : RGe(points[i].potential, points[i + 1].potential)

\* the two half-cycles meet in one sample
SharesSwitchingSample(cycle) ==
  /\ Len(cycle.data.forward) > 0
  /\ Len(cycle.data.reverse) > 0
  /\ \/ cycle.data.forward[Len(cycle.data.forward)] = cycle.data.reverse[1]
     \/ cycle.data.reverse[Len(cycle.data.reverse)] = cycle.data.forward[1]

MonotonicHalfCycles ==
  /\ Len(result.cycles) >= 1
  /\ \A k \in 1..Len(result.cycles) :
        /\ NonDecreasing(result.cycles[k].data.forward)
        /\ NonIncreasing(result.cycles[k].data.reverse)
        /\ SharesSwitchingSample(result.cycles[k])
  /\ result.selectedIndex = Len(result.cycles) - 1

(* C29: for a noise-free triangular sweep of at least 20 samples without a *)
(* Scan column, of one or more full cycles and starting at either          *)
(* switching potential, every cycle returned by splitCycles has a          *)
(* non-decreasing forward sequence and a non-increasing reverse sequence   *)
(* that share the switching sample, and selectedIndex is the index of the  *)
(* last returned cycle.                                                    *)
C29_MonotonicHalfCycles == SplitDone => MonotonicHalfCycles

\* the same statement for sweeps of a single full cycle
C29_OneCycle == (SplitDone /\ args.fullCycles = 1) => MonotonicHalfCycles

\* a sweep of two or more full cycles comes back as one cycle whose second
\* half runs from the first switching point to the last sample
C29_SeveralCycles ==
  (SplitDone /\ args.fullCycles >= 2) =>
     /\ Len(result.cycles) = 1
     /\ ~MonotonicHalfCycles
     /\ Len(result.cycles[1].data.forward) + Len(result.cycles[1].data.reverse)
          = Len(args.data) + 1

(***************************************************************************)
(* The application: its state cells, the control panel and the handlers.   *)
(* An absent value (undefined, null) is the empty tuple.                   *)
(***************************************************************************)
Undefined == <<>>

\* the configuration the application starts with
InitialConfig ==
  [smoothingEnabled |-> TRUE, smoothingWindow |-> 9, baselineMethod |-> "rubberband",
   aslsLambda |-> R(1000000), aslsP |-> <<1, 100>>, rubberbandIterations |-> 40,
   rubberbandWindowSize |-> 80, linearAnchorFraction |-> <<1, 10>>,
   peakProminenceThreshold |-> <<1, 20>>, scanRate |-> Undefined]

\* the control panel's own defaults, spread under a scan rate
defaultConfig(scanRate) ==
  [smoothingEnabled |-> TRUE, smoothingWindow |-> 9, baselineMethod |-> "rubberband",
   aslsLambda |-> R(1000000), aslsP |-> <<1, 100>>, rubberbandIterations |-> 40,
   rubberbandWindowSize |-> 80, linearAnchorFraction |-> <<1, 10>>,
   peakProminenceThreshold |-> <<1, 20>>, scanRate |-> scanRate]

smoothingOptions == {5, 9, 15, 21}
baselineKeys == {"rubberband", "linear", "asls"}

\* the two ends of each slider
AslsLambdaStops == {R(1000), R(1000000000)}
AslsPStops == {<<1, 1000>>, <<1, 10>>}
IterationStops == {5, 100}
WindowSizeStops == {10, 200}
AnchorFractionStops == {<<1, 50>>, <<3, 10>>}
ProminenceStops == {<<1, 100>>, <<3, 10>>}

\* a reset that also forgets the scan rate
ResetConfigForgetsScanRate(config) == defaultConfig(Undefined)

ResetConfig(config) == defaultConfig(config.scanRate)

\* the configurations the rendered controls can emit, each with its control
PanelChanges(config) ==
  {[control |-> "reset", config |-> ResetConfig(config)],
   [control |-> "smoothing",
    config |-> [config EXCEPT !.smoothingEnabled = ~config.smoothingEnabled]]}
  \cup (IF config.smoothingEnabled
        THEN {[control |-> "window", config |-> [config EXCEPT !.smoothingWindow = w]] :
                w \in smoothingOptions}
        ELSE {})
  \cup {[control |-> "baseline", config |-> [config EXCEPT !.baselineMethod = key]] :
          key \in baselineKeys}
  \cup (IF config.baselineMethod = "asls"
        THEN {[control |-> "aslsLambda", config |-> [config EXCEPT !.aslsLambda = v]] :
                v \in AslsLambdaStops}
             \cup {[control |-> "aslsP", config |-> [config EXCEPT !.aslsP = v]] :
                     v \in AslsPStops}
        ELSE {})
  \cup (IF config.baselineMethod = "rubberband"
        THEN {[control |-> "iterations",
               config |-> [config EXCEPT !.rubberbandIterations = v]] :
                v \in IterationStops}
             \cup {[control |-> "windowSize",
                    config |-> [config EXCEPT !.rubberbandWindowSize = v]] :
                     v \in WindowSizeStops}
        ELSE {})
  \cup (IF config.baselineMethod = "linear"
        THEN {[control |-> "anchorFraction",
               config |-> [config EXCEPT !.linearAnchorFraction = v]] :
                v \in AnchorFractionStops}
        ELSE {})
  \cup {[control |-> "prominence",
         config |-> [config EXCEPT !.peakProminenceThreshold = v]] :
          v \in ProminenceStops}

emptyScan ==
  [raw |-> <<>>, smoothed |-> <<>>, derivative |-> <<>>, baseline |-> <<>>,
   peaks |-> <<>>]

\* { raw, ...result }
ScanState(raw, r) ==
  [raw |-> raw, smoothed |-> r.smoothed, derivative |-> r.derivative,
   baseline |-> r.baseline, peaks |-> r.peaks, warnings |-> r.warnings]

\* the state cells
Cells(st) ==
  [rawData |-> st.rawData, allCycles |-> st.allCycles,
   selectedCycleIndex |-> st.selectedCycleIndex, forward |-> st.forward,
   reverse |-> st.reverse, config |-> st.config, error |-> st.error]

\* the two setters of analyzeCycle, given the two results; an exception
\* leaves the cells after it unset
StoreAnalysis(app, cycle, r) ==
  IF r.forward.raised THEN [threw |-> TRUE, app |-> app]
  ELSE IF r.reverse.raised
  THEN [threw |-> TRUE,
        app |-> [app EXCEPT !.forward = ScanState(cycle.data.forward, r.forward)]]
  ELSE [threw |-> FALSE,
        app |-> [app EXCEPT !.forward = ScanState(cycle.data.forward, r.forward),
                            !.reverse = ScanState(cycle.data.reverse, r.reverse)]]

\* analyzeCycle on the state cells
AnalyzeInto(app, cycle, cfg) ==
  StoreAnalysis(app, cycle, analyzeCycle(cycle.data.forward, cycle.data.reverse, cfg))

\* A handler up to its call of analyzeCycle: the cells it has set, and the
\* cycle and configuration it analyses, if any, with the catch around the call.
Analysing(app, cycle, cfg, catch) ==
  [app |-> app, analyse |-> TRUE, cycle |-> cycle, cfg |-> cfg, catch |-> catch]
Returning(app) ==
  [app |-> app, analyse |-> FALSE, cycle |-> <<>>, cfg |-> <<>>, catch |-> ""]

\* a re-analysis with the configuration of before the change
handleConfigChangeStale(app, newConfig) ==
  IF Len(app.allCycles) > 0
  THEN Analysing([app EXCEPT !.config = newConfig],
                 At(app.allCycles, app.selectedCycleIndex), app.config, "config")
  ELSE Returning([app EXCEPT !.config = newConfig])

handleConfigChange(app, newConfig) ==
  IF Len(app.allCycles) > 0
  THEN Analysing([app EXCEPT !.config = newConfig],
                 At(app.allCycles, app.selectedCycleIndex), newConfig, "config")
  ELSE Returning([app EXCEPT !.config = newConfig])

handleCycleChange(app, index) ==
  IF index < Len(app.allCycles)
  THEN Analysing([app EXCEPT !.selectedCycleIndex = index],
                 At(app.allCycles, index), app.config, "cycle")
  ELSE Returning([app EXCEPT !.selectedCycleIndex = index])

\* the catch branch of handleFileLoad
LoadFailed(app, message) ==
  [app EXCEPT !.error = message, !.rawData = <<>>, !.allCycles = <<>>,
              !.forward = emptyScan, !.reverse = emptyScan]

\* the cells processData sets before the selected cycle is analysed
Loaded(app, cfg, data, splitResult) ==
  [app EXCEPT !.error = "", !.config = cfg, !.rawData = data,
              !.allCycles = splitResult.cycles,
              !.selectedCycleIndex = splitResult.selectedIndex]

\* processData, given the split of the data
processData(app, cfg, data, splitResult) ==
  IF Len(splitResult.cycles) > 0
  THEN Analysing(Loaded(app, cfg, data, splitResult),
                 At(splitResult.cycles, splitResult.selectedIndex), cfg, "load")
  ELSE Returning(Loaded(app, cfg, data, splitResult))

\* { ...config, scanRate: parseResult.scanRate ?? config.scanRate }
updatedConfig(config, parseResult) ==
  [config EXCEPT !.scanRate = IF parseResult.scanRate = Undefined
                              THEN config.scanRate ELSE parseResult.scanRate]

\* handleFileLoad of the render that captured config
handleFileLoad(app, config, parseResult) ==
  IF parseResult.error # ""
  THEN Returning(LoadFailed(app, parseResult.error))
  ELSE IF Len(parseResult.data) = 0
  THEN Returning(LoadFailed(app, "No valid data found in file"))
  ELSE processData(app, updatedConfig(config, parseResult), parseResult.data,
                   splitCycles(parseResult.data))

\* the catch around analyzeCycle: handleFileLoad empties the cells, the other
\* two handlers set the error only
Caught(app, catch) ==
  CASE catch = "load" -> LoadFailed(app, "Failed to process file")
    [] catch = "config" ->
         [app EXCEPT !.error = "Failed to re-process data with new settings"]
    [] catch = "cycle" -> [app EXCEPT !.error = "Failed to analyze selected cycle"]

Outcome(analysed, catch) ==
  IF analysed.threw THEN Caught(analysed.app, catch) ELSE analysed.app

\* the rest of a handler: analyzeCycle inside its try block
Completed(handler) ==
  IF handler.analyse
  THEN Outcome(AnalyzeInto(handler.app, handler.cycle, handler.cfg), handler.catch)
  ELSE handler.app

(***************************************************************************)
(* Specification of the application.  result holds the state cells; args   *)
(* holds the file reads in flight, each with the configuration of the      *)
(* render that started it, the event handled last and the number of        *)
(* events handled.                                                         *)
(***************************************************************************)
MaxEvents == 4       \* most events handled in a behaviour
MaxReads == 1        \* most file reads in flight

FileNames == {"broken", "scans", "plain"}

\* two scans 0 -> 1 -> 0 V with a Scan column.  The current is constant in
\* each scan: the exact smoothing statistics of a varying current leave
\* TLC's integers for the windows 9, 15 and 21.
ScansData ==
  <<ScanPoint(R(0), R(1), 1), ScanPoint(R(1), R(1), 1), ScanPoint(R(0), R(1), 1),
    ScanPoint(R(0), R(3), 2), ScanPoint(R(1), R(3), 2), ScanPoint(R(0), R(3), 2)>>

\* two samples without a Scan column: a forward half only
PlainData == <<Point(R(0), R(2)), Point(R(1), R(2))>>

\* parseElectrochemicalData of each file
ParseResultOf(name) ==
  CASE name = "broken" ->
         [data |-> <<>>, scanRate |-> Undefined,
          error |-> "Could not find potential column in header"]
    [] name = "scans" -> [data |-> ScansData, scanRate |-> <<1, 10>>, error |-> ""]
    [] name = "plain" -> [data |-> PlainData, scanRate |-> Undefined, error |-> ""]

InitApp ==
  /\ pc = "mounted"
  /\ args = [fn |-> "App", reads |-> <<>>, event |-> "mount", events |-> 0]
  /\ result = [rawData |-> <<>>, allCycles |-> <<>>, selectedCycleIndex |-> 0,
               forward |-> emptyScan, reverse |-> emptyScan, config |-> InitialConfig,
               error |-> ""]

Mounted == pc = "mounted" /\ args.fn = "App" /\ args.events < MaxEvents

\* readFile: the read starts and keeps the handler of the current render
ReadFile ==
  /\ Mounted
  /\ Len(args.reads) < MaxReads
  /\ \E name \in FileNames :
       args' = [args EXCEPT !.reads = Append(@, [name |-> name, config |-> result.config]),
                            !.event = "read", !.events = @ + 1]
  /\ UNCHANGED <<pc, result>>

Event(kind, control, config, index) ==
  [kind |-> kind, control |-> control, config |-> config, index |-> index]

\* reader.onload of the oldest read
LoadEvents ==
  IF Len(args.reads) > 0 THEN {Event("load", "load", args.reads[1].config, 0)} ELSE {}

\* the controls of the panel, which is rendered while raw data is held
ConfigEvents ==
  IF Len(result.rawData) > 0
  THEN {Event("config", change.control, change.config, 0) :
          change \in PanelChanges(result.config)}
  ELSE {}

\* the cycle buttons, rendered while more than one cycle is held
CycleEvents ==
  IF Len(result.rawData) > 0 /\ Len(result.allCycles) > 1
  THEN {Event("cycle", "cycle", result.config, index) :
          index \in 0..(Len(result.allCycles) - 1)}
  ELSE {}

\* the handler an event runs, up to its call of analyzeCycle
Handler(event) ==
  CASE event.kind = "load" ->
         handleFileLoad(result, event.config, ParseResultOf(args.reads[1].name))
    [] event.kind = "config" -> handleConfigChange(result, event.config)
    [] event.kind = "cycle" -> handleCycleChange(result, event.index)

\* one event handled to its end: handleFileLoad, handleConfigChange or
\* handleCycleChange, with the analysis of the cycle it selects
HandleEvent ==
  /\ Mounted
  /\ \E event \in LoadEvents \cup ConfigEvents \cup CycleEvents :
       /\ result' = Completed(Handler(event))
       /\ args' = [args EXCEPT
                     !.reads = IF event.kind = "load" THEN Tail(@) ELSE @,
                     !.event = event.control, !.events = @ + 1]
  /\ UNCHANGED pc

NextApp == ReadFile \/ HandleEvent

SpecApp == InitApp /\ [][NextApp]_vars

\* the constraints on a configuration
ConfigInvariant(config) ==
  /\ RGt(config.aslsP, Zero) /\ RLt(config.aslsP, One)
  /\ config.smoothingWindow \in SG_WINDOWS
  /\ RGe(config.linearAnchorFraction, Zero) /\ RLe(config.linearAnchorFraction, One)
  /\ RGe(config.peakProminenceThreshold, Zero)
  /\ RLe(config.peakProminenceThreshold, One)
  /\ config.baselineMethod \in baselineKeys

\* the stored configuration and the one each read in flight will pass on
ConfigsInUse == {result.config} \cup {args.reads[k].config : k \in 1..Len(args.reads)}

(* C27: from the default configuration, after any sequence of control      *)
(* panel actions and file loads, the configuration passed to analyzeCVScan *)
(* has 0 < aslsP < 1, a smoothingWindow that is a key of the kernel table, *)
(* linearAnchorFraction and peakProminenceThreshold in [0, 1] and a        *)
(* baselineMethod among rubberband, linear, asls; reset restores every     *)
(* default while keeping scanRate.                                         *)
C27_ConfigurationInvariant ==
  /\ \A config \in ConfigsInUse : ConfigInvariant(config)
  /\ [][/\ \A config \in ConfigsInUse' : ConfigInvariant(config)
        /\ args'.event = "reset" =>
              result'.config =
                [InitialConfig EXCEPT !.scanRate = result.config.scanRate]]_vars

\* a reset taken with the scan rate a loaded file gave
C27_Witness ==
  /\ args.fn = "App"
  /\ args.event = "reset"
  /\ Len(result.rawData) > 0
  /\ result.config.scanRate = <<1, 10>>
  /\ result.config = [InitialConfig EXCEPT !.scanRate = <<1, 10>>]
  /\ ConfigInvariant(result.config)

\* the stored results are those of cycle, given its analysis
StoredAre(cycle, fresh) ==
  /\ result.forward = ScanState(cycle.data.forward, fresh.forward)
  /\ result.reverse = ScanState(cycle.data.reverse, fresh.reverse)

StoredAreFreshFor(cycle) ==
  StoredAre(cycle, analyzeCycle(cycle.data.forward, cycle.data.reverse, result.config))

\* the selected cycle of a non-empty cycle list, analysed afresh
FreshResults ==
  Len(result.allCycles) > 0 =>
    /\ result.selectedCycleIndex \in 0..(Len(result.allCycles) - 1)
    /\ StoredAreFreshFor(At(result.allCycles, result.selectedCycleIndex))

\* the last event was a load that failed
LoadJustFailed == args.event = "load" /\ result.error # ""

(* C28: after any sequence of file loads, configuration changes and cycle  *)
(* selections, whenever the cycle list is non-empty the selected cycle     *)
(* index is a valid index into it and the stored forward and reverse       *)
(* results equal analyzeCVScan of the selected cycle's forward and reverse *)
(* data with the stored configuration; after a failing load the raw data,  *)
(* the cycle list and both results are empty.                              *)
C28_ResultFreshness ==
  args.fn = "App" =>
    /\ FreshResults
    /\ LoadJustFailed =>
         /\ result.rawData = <<>>
         /\ result.allCycles = <<>>
         /\ result.forward.smoothed = <<>> /\ result.forward.peaks = <<>>
         /\ result.forward.raw = <<>>
         /\ result.reverse.smoothed = <<>> /\ result.reverse.peaks = <<>>
         /\ result.reverse.raw = <<>>

\* the first of two scans selected after smoothing was switched off
C28_Witness ==
  /\ args.fn = "App"
  /\ args.event = "cycle"
  /\ Len(result.allCycles) = 2
  /\ result.selectedCycleIndex = 0
  /\ ~result.config.smoothingEnabled
  /\ result.forward.raw = SubSeq(ScansData, 1, 2)
  /\ result.forward.warnings # ScanState(<<>>, analyzeCVScan(SubSeq(ScansData, 1, 2),
                                 InitialConfig, "forward")).warnings
  /\ Len(result.reverse.smoothed) = 2

=============================================================================
